---------------------------- MODULE Spec2Model ----------------------------
(***************************************************************************)
(* A model of the task management API: the identity store, the owner       *)
(* scoped category and task stores with their database constraints, the    *)
(* token codec, and the request handlers that act on them.                 *)
(*                                                                         *)
(* The tables are sets of rows.  Primary keys are uuid4 values in the      *)
(* code; here they are drawn from a counter per table, so that an id is    *)
(* never used twice.  Every request handler is one action (the two-phase   *)
(* handlers of the identity store are a check step and a write step, so    *)
(* that requests can interleave between the two); each action records the  *)
(* response it sends in the variable last.                                 *)
(***************************************************************************)
EXTENDS Integers, Sequences, FiniteSets, TLC

VARIABLES
    users,          \* table users
    categories,     \* table categories
    tasks,          \* table tasks
    nextUserId,     \* the next fresh primary key of users
    nextCategoryId, \* the next fresh primary key of categories
    nextTaskId,     \* the next fresh primary key of tasks
    pending,        \* requests that passed their checks and have not written yet
    now,            \* the clock (datetime.utcnow()), in ticks
    tokens,         \* the tokens issued so far
    last,           \* the last request served and the response it got
    performance_monitor, \* the global PerformanceMonitor instance
    recorded,       \* history: the durations recorded per endpoint since the last reset
    sessions        \* the sessions AsyncSessionLocal has handed out

vars == <<users, categories, tasks, nextUserId, nextCategoryId, nextTaskId,
          pending, now, tokens, last, performance_monitor, recorded, sessions>>

store == <<users, categories, tasks>>

-----------------------------------------------------------------------------
(* Bounds of the model *)

MaxCategoryId == 3
MaxStoreCategoryId == 1
MaxStoreTaskId == 2

(* The metrics aggregator and the session factory as they are constructed.  The
   request handlers of the store are followed without the timing middleware:
   only the monitor specification records requests, and only the session
   specification follows the sessions *)
Endpoints == {"/health", "/metrics"}

PerformanceMonitor ==
    [metrics |-> [e \in Endpoints |-> <<>>], errors |-> [e \in Endpoints |-> 0],
     lock |-> {}, start_time |-> 0]

NoneRecorded == [e \in Endpoints |-> <<>>]

Elsewhere == UNCHANGED <<performance_monitor, recorded, sessions>>

InitElsewhere ==
    /\ performance_monitor = PerformanceMonitor
    /\ recorded = NoneRecorded
    /\ sessions = {}

(* Optional columns: None for an id and for a due date *)
NoId == 0
NoDue == -1

TODO == "TODO"
IN_PROGRESS == "IN_PROGRESS"
COMPLETED == "COMPLETED"
ARCHIVED == "ARCHIVED"
TaskStatus == {TODO, IN_PROGRESS, COMPLETED, ARCHIVED}

LOW == "LOW"
MEDIUM == "MEDIUM"
HIGH == "HIGH"
URGENT == "URGENT"
TaskPriority == {LOW, MEDIUM, HIGH, URGENT}

DefaultColor == "#3B82F6"

(* A field given as null in a request body *)
Null == "null"

(* Text is a sequence of characters; a NULL text column is NullText *)
NullText == <<Null>>
NoRow == [id |-> NoId]

NoRequest == [op |-> "none", user |-> NoId, id |-> NoId, arg |-> NoRow,
              status |-> 0, detail |-> "none", body |-> NoRow]

-----------------------------------------------------------------------------
(* Responses *)

(* What a request got: the handler, the identity it ran for, the id in its path,
   its body or query (arg), and the status, detail and row sent back *)
Response(op, user_id, id, arg, status, detail, body) ==
    [op |-> op, user |-> user_id, id |-> id, arg |-> arg, status |-> status,
     detail |-> detail, body |-> body]

(* A 200/201/204 response *)
Ok(op, user_id, id, arg, status, row) ==
    Response(op, user_id, id, arg, status, "ok", row)

NotFoundError(message) == [status |-> 404, detail |-> message]
AlreadyExistsError(message) == [status |-> 409, detail |-> message]
(* sqlalchemy_exception_handler *)
DatabaseError == [status |-> 500, detail |-> "Database error occurred"]

Raise(op, user_id, id, arg, err) ==
    Response(op, user_id, id, arg, err.status, err.detail, NoRow)

-----------------------------------------------------------------------------
(* BaseRepository *)

(* setattr of every field of obj_in the row has *)
RepoUpdate(db_obj, obj_in) ==
    [f \in DOMAIN db_obj |-> IF f \in DOMAIN obj_in THEN obj_in[f] ELSE db_obj[f]]

-----------------------------------------------------------------------------
(* Database constraints *)

(* categories: name NOT NULL, uq_user_category_name, user_id references users *)
CategoryConstraints(cats, usrs) ==
    /\ \A c \in cats : c.name # Null /\ c.color # Null
    /\ \A c, d \in cats : (c.user_id = d.user_id /\ c.name = d.name) => c.id = d.id
    /\ \A c \in cats : \E u \in usrs : u.id = c.user_id

(* tasks: title, status, priority NOT NULL, user_id references users,
   category_id references categories *)
TaskConstraints(tsks, cats, usrs) ==
    /\ \A t \in tsks : t.title # NullText /\ t.status # Null /\ t.priority # Null
    /\ \A t \in tsks : \E u \in usrs : u.id = t.user_id
    /\ \A t \in tsks : t.category_id # NoId => \E c \in cats : c.id = t.category_id

(* The foreign key with ON DELETE CASCADE in place of SET NULL *)
TasksCascadeOnCategoryDelete(tsks, category_id) ==
    { t \in tsks : t.category_id # category_id }

(* DELETE FROM categories: ON DELETE SET NULL on tasks.category_id *)
TasksAfterCategoryDelete(tsks, category_id) ==
    { IF t.category_id = category_id THEN [t EXCEPT !.category_id = NoId] ELSE t
      : t \in tsks }

TasksKeptOnUserDelete(tsks, user_id) == tsks

(* DELETE FROM users: ON DELETE CASCADE on tasks.user_id and categories.user_id *)
TasksAfterUserDelete(tsks, user_id) == { t \in tsks : t.user_id # user_id }

CategoriesAfterUserDelete(cats, user_id) == { c \in cats : c.user_id # user_id }

-----------------------------------------------------------------------------
(* The Access Gate as the resource handlers see it: get_current_active_user
   hands them an identity of the store that is active *)
CurrentActiveUsers == { u \in users : u.is_active }

-----------------------------------------------------------------------------
(* CategoryRepository: each query is the set of rows it selects *)

(* The lookup without its owner condition *)
category_get_by_id_only(user_id, category_id) ==
    { c \in categories : c.id = category_id }

category_get_by_user_and_id(user_id, category_id) ==
    { c \in categories : c.id = category_id /\ c.user_id = user_id }

(* The duplicate check over every owner's categories *)
name_exists_for_any_user(user_id, name, exclude_id) ==
    { c \in categories : /\ c.name = name
                         /\ (exclude_id # NoId => c.id # exclude_id) } # {}

name_exists_for_user(user_id, name, exclude_id) ==
    { c \in categories : /\ c.user_id = user_id
                         /\ c.name = name
                         /\ (exclude_id # NoId => c.id # exclude_id) } # {}

(* TaskRepository *)

(* The lookup without its owner condition *)
task_get_by_id_only(user_id, task_id) ==
    { t \in tasks : t.id = task_id }

task_get_by_user_and_id(user_id, task_id) ==
    { t \in tasks : t.id = task_id /\ t.user_id = user_id }

-----------------------------------------------------------------------------
(* CategoryService with its endpoints.  A handler's result is the response and
   the tables as the request leaves them. *)

CategoryResult(resp, cats, tsks) ==
    [response |-> resp, categories |-> cats, tasks |-> tsks]

create_category(u, category_in) ==
    LET op == "create_category"
        row == [id |-> nextCategoryId, user_id |-> u.id,
                name |-> category_in.name, color |-> category_in.color]
    IN  IF name_exists_for_user(u.id, category_in.name, NoId)
        THEN CategoryResult(
                 Raise(op, u.id, NoId, category_in,
                       AlreadyExistsError("Category '" \o category_in.name
                                          \o "' already exists")),
                 categories, tasks)
        ELSE IF ~CategoryConstraints(categories \cup {row}, users)
        THEN CategoryResult(Raise(op, u.id, NoId, category_in, DatabaseError),
                            categories, tasks)
        ELSE CategoryResult(Ok(op, u.id, row.id, category_in, 201, row),
                            categories \cup {row}, tasks)

get_category(u, category_id) ==
    LET op == "get_category"
        found == category_get_by_user_and_id(u.id, category_id)
    IN  IF found = {}
        THEN CategoryResult(
                 Raise(op, u.id, category_id, NoRow,
                       NotFoundError("Category not found")),
                 categories, tasks)
        ELSE CategoryResult(
                 Ok(op, u.id, category_id, NoRow, 200, CHOOSE c \in found : TRUE),
                 categories, tasks)

update_category(u, category_id, update_data) ==
    LET op == "update_category"
        found == category_get_by_user_and_id(u.id, category_id)
        category == CHOOSE c \in found : TRUE
        updated == RepoUpdate(category, update_data)
        cats == (categories \ {category}) \cup {updated}
    IN  IF found = {}
        THEN CategoryResult(
                 Raise(op, u.id, category_id, update_data,
                       NotFoundError("Category not found")),
                 categories, tasks)
        ELSE IF DOMAIN update_data = {}
        THEN CategoryResult(Ok(op, u.id, category_id, update_data, 200, category),
                            categories, tasks)
        ELSE IF /\ "name" \in DOMAIN update_data
                /\ name_exists_for_user(u.id, update_data["name"], category_id)
        THEN CategoryResult(
                 Raise(op, u.id, category_id, update_data,
                       AlreadyExistsError("Category '" \o update_data["name"]
                                          \o "' already exists")),
                 categories, tasks)
        ELSE IF ~CategoryConstraints(cats, users)
        THEN CategoryResult(
                 Raise(op, u.id, category_id, update_data, DatabaseError),
                 categories, tasks)
        ELSE CategoryResult(Ok(op, u.id, category_id, update_data, 200, updated),
                            cats, tasks)

delete_category(u, category_id) ==
    LET op == "delete_category"
        found == category_get_by_user_and_id(u.id, category_id)
    IN  IF found = {}
        THEN CategoryResult(
                 Raise(op, u.id, category_id, NoRow,
                       NotFoundError("Category not found")),
                 categories, tasks)
        ELSE CategoryResult(
                 Ok(op, u.id, category_id, NoRow, 204, NoRow),
                 { c \in categories : c.id # category_id },
                 TasksAfterCategoryDelete(tasks, category_id))

-----------------------------------------------------------------------------
(* TaskService with its endpoints *)

TaskResult(resp, tsks) == [response |-> resp, tasks |-> tsks]

create_task(u, task_in) ==
    LET op == "create_task"
        row == [id |-> nextTaskId, user_id |-> u.id, title |-> task_in.title,
                description |-> task_in.description, status |-> task_in.status,
                priority |-> task_in.priority, due_date |-> task_in.due_date,
                category_id |-> task_in.category_id, created_at |-> now]
    IN  IF /\ task_in.category_id # NoId
           /\ category_get_by_user_and_id(u.id, task_in.category_id) = {}
        THEN TaskResult(Raise(op, u.id, NoId, task_in,
                              NotFoundError("Category not found")), tasks)
        ELSE IF ~TaskConstraints(tasks \cup {row}, categories, users)
        THEN TaskResult(Raise(op, u.id, NoId, task_in, DatabaseError), tasks)
        ELSE TaskResult(Ok(op, u.id, row.id, task_in, 201, row), tasks \cup {row})

get_task(u, task_id) ==
    LET op == "get_task"
        found == task_get_by_user_and_id(u.id, task_id)
    IN  IF found = {}
        THEN TaskResult(Raise(op, u.id, task_id, NoRow,
                              NotFoundError("Task not found")), tasks)
        ELSE TaskResult(Ok(op, u.id, task_id, NoRow, 200, CHOOSE t \in found : TRUE),
                        tasks)

update_task(u, task_id, update_data) ==
    LET op == "update_task"
        found == task_get_by_user_and_id(u.id, task_id)
        task == CHOOSE t \in found : TRUE
        updated == RepoUpdate(task, update_data)
        tsks == (tasks \ {task}) \cup {updated}
    IN  IF found = {}
        THEN TaskResult(Raise(op, u.id, task_id, update_data,
                              NotFoundError("Task not found")), tasks)
        ELSE IF DOMAIN update_data = {}
        THEN TaskResult(Ok(op, u.id, task_id, update_data, 200, task), tasks)
        ELSE IF /\ "category_id" \in DOMAIN update_data
                /\ update_data["category_id"] # NoId
                /\ category_get_by_user_and_id(u.id, update_data["category_id"]) = {}
        THEN TaskResult(Raise(op, u.id, task_id, update_data,
                              NotFoundError("Category not found")), tasks)
        ELSE IF ~TaskConstraints(tsks, categories, users)
        THEN TaskResult(Raise(op, u.id, task_id, update_data, DatabaseError), tasks)
        ELSE TaskResult(Ok(op, u.id, task_id, update_data, 200, updated), tsks)

delete_task(u, task_id) ==
    LET op == "delete_task"
        found == task_get_by_user_and_id(u.id, task_id)
    IN  IF found = {}
        THEN TaskResult(Raise(op, u.id, task_id, NoRow,
                              NotFoundError("Task not found")), tasks)
        ELSE TaskResult(Ok(op, u.id, task_id, NoRow, 204, NoRow),
                        { t \in tasks : t.id # task_id })

(* delete_my_account: DELETE FROM users, with the cascades of the foreign keys *)
delete_my_account(u) ==
    LET cats == CategoriesAfterUserDelete(categories, u.id)
        gone == { c.id : c \in categories \ cats }
        tsks == { IF t.category_id \in gone THEN [t EXCEPT !.category_id = NoId]
                  ELSE t : t \in TasksAfterUserDelete(tasks, u.id) }
    IN  [response |-> Ok("delete_my_account", u.id, NoId, NoRow, 200, NoRow),
         users |-> { x \in users : x.id # u.id },
         categories |-> cats,
         tasks |-> tsks]

-----------------------------------------------------------------------------
(* The requests of the specifications *)

Alice == [id |-> 1, email |-> "a@x.io", username |-> "alice", full_name |-> Null,
          hashed_password |-> <<"bcrypt", "pw1">>,
          is_active |-> TRUE, is_verified |-> FALSE]
Bob   == [id |-> 2, email |-> "b@x.io", username |-> "bob", full_name |-> Null,
          hashed_password |-> <<"bcrypt", "pw2">>,
          is_active |-> TRUE, is_verified |-> FALSE]

Names == {"Work", "Home"}

CategoryCreates == [name : Names, color : {DefaultColor}]

(* CategoryUpdate bodies, as model_dump(exclude_unset=True) gives them *)
CategoryUpdates ==
    {<<>>} \cup { "name" :> n : n \in Names \cup {Null} }
           \cup { "color" :> "#FF5733" }

CategoryIds == 1..MaxCategoryId

(* The bodies and ids of the store specification, where categories and tasks
   are used together: one category name, and the update that names it again *)
StoreCategoryIds == 1..MaxStoreCategoryId
StoreTaskIds == 1..MaxStoreTaskId

StoreCategoryCreates == [name : {"Work"}, color : {DefaultColor}]
StoreCategoryUpdates == {<<>>} \cup { "name" :> "Work" }

TaskCreates ==
    [title : {<<"t">>}, description : {NullText}, status : {TODO}, priority : {MEDIUM},
     due_date : {NoDue}, category_id : {NoId} \cup StoreCategoryIds]

(* TaskUpdate bodies, as model_dump(exclude_unset=True) gives them *)
TaskUpdates ==
    {<<>>} \cup { "category_id" :> c : c \in {NoId} \cup StoreCategoryIds }
           \cup { "title" :> NullText }

-----------------------------------------------------------------------------
(* The resource handlers as actions *)

IdentityUnchanged ==
    UNCHANGED <<users, nextUserId, pending, now, tokens>> /\ Elsewhere

CreateCategory(u, category_in) ==
    LET r == create_category(u, category_in) IN
    /\ categories' = r.categories
    /\ nextCategoryId' = IF r.response.status = 201 THEN nextCategoryId + 1
                         ELSE nextCategoryId
    /\ last' = r.response
    /\ UNCHANGED <<tasks, nextTaskId>>
    /\ IdentityUnchanged

GetCategory(u, category_id) ==
    /\ last' = get_category(u, category_id).response
    /\ UNCHANGED <<categories, tasks, nextCategoryId, nextTaskId>>
    /\ IdentityUnchanged

UpdateCategory(u, category_id, update_data) ==
    LET r == update_category(u, category_id, update_data) IN
    /\ categories' = r.categories
    /\ last' = r.response
    /\ UNCHANGED <<tasks, nextCategoryId, nextTaskId>>
    /\ IdentityUnchanged

(* The 204 response has no body; last keeps, as the request's arg, the ids of the
   tasks that referenced the category when the DELETE ran *)
DeleteCategory(u, category_id) ==
    LET r == delete_category(u, category_id)
        referenced == { t.id : t \in { x \in tasks : x.category_id = category_id } }
    IN
    /\ categories' = r.categories
    /\ tasks' = r.tasks
    /\ last' = IF r.response.status = 204
               THEN [r.response EXCEPT !.arg = [referenced |-> referenced]]
               ELSE r.response
    /\ UNCHANGED <<nextCategoryId, nextTaskId>>
    /\ IdentityUnchanged

CreateTask(u, task_in) ==
    LET r == create_task(u, task_in) IN
    /\ tasks' = r.tasks
    /\ nextTaskId' = IF r.response.status = 201 THEN nextTaskId + 1 ELSE nextTaskId
    /\ last' = r.response
    /\ UNCHANGED <<categories, nextCategoryId>>
    /\ IdentityUnchanged

GetTask(u, task_id) ==
    /\ last' = get_task(u, task_id).response
    /\ UNCHANGED <<categories, tasks, nextCategoryId, nextTaskId>>
    /\ IdentityUnchanged

UpdateTask(u, task_id, update_data) ==
    LET r == update_task(u, task_id, update_data) IN
    /\ tasks' = r.tasks
    /\ last' = r.response
    /\ UNCHANGED <<categories, nextCategoryId, nextTaskId>>
    /\ IdentityUnchanged

DeleteTask(u, task_id) ==
    LET r == delete_task(u, task_id) IN
    /\ tasks' = r.tasks
    /\ last' = r.response
    /\ UNCHANGED <<categories, nextCategoryId, nextTaskId>>
    /\ IdentityUnchanged

DeleteMyAccount(u) ==
    LET r == delete_my_account(u) IN
    /\ users' = r.users
    /\ categories' = r.categories
    /\ tasks' = r.tasks
    /\ last' = r.response
    /\ UNCHANGED <<nextUserId, nextCategoryId, nextTaskId, pending, now, tokens>>
    /\ Elsewhere

-----------------------------------------------------------------------------
(* The resource specification: two registered identities and their requests *)

InitStore ==
    /\ users = {Alice, Bob}
    /\ categories = {}
    /\ tasks = {}
    /\ nextUserId = 3
    /\ nextCategoryId = 1
    /\ nextTaskId = 1
    /\ pending = {}
    /\ InitElsewhere
    /\ now = 0
    /\ tokens = {}
    /\ last = NoRequest

NextStore ==
    \/ \E u \in CurrentActiveUsers, c \in StoreCategoryCreates :
          nextCategoryId <= MaxStoreCategoryId /\ CreateCategory(u, c)
    \/ \E u \in CurrentActiveUsers, id \in StoreCategoryIds : GetCategory(u, id)
    \/ \E u \in CurrentActiveUsers, id \in StoreCategoryIds,
          d \in StoreCategoryUpdates : UpdateCategory(u, id, d)
    \/ \E u \in CurrentActiveUsers, id \in StoreCategoryIds : DeleteCategory(u, id)
    \/ \E u \in CurrentActiveUsers, t \in TaskCreates :
          nextTaskId <= MaxStoreTaskId /\ CreateTask(u, t)
    \/ \E u \in CurrentActiveUsers, id \in StoreTaskIds : GetTask(u, id)
    \/ \E u \in CurrentActiveUsers, id \in StoreTaskIds, d \in TaskUpdates :
          UpdateTask(u, id, d)
    \/ \E u \in CurrentActiveUsers, id \in StoreTaskIds : DeleteTask(u, id)
    \/ \E u \in CurrentActiveUsers : DeleteMyAccount(u)

SpecStore == InitStore /\ [][NextStore]_vars

-----------------------------------------------------------------------------
(* The category specification: the two identities and their category requests,
   with every request body the schema admits *)

NextCategory ==
    \/ \E u \in CurrentActiveUsers, c \in CategoryCreates :
          nextCategoryId <= MaxCategoryId /\ CreateCategory(u, c)
    \/ \E u \in CurrentActiveUsers, id \in CategoryIds : GetCategory(u, id)
    \/ \E u \in CurrentActiveUsers, id \in CategoryIds, d \in CategoryUpdates :
          UpdateCategory(u, id, d)
    \/ \E u \in CurrentActiveUsers, id \in CategoryIds : DeleteCategory(u, id)

SpecCategory == InitStore /\ [][NextCategory]_vars

-----------------------------------------------------------------------------
(* core/security.py: the token codec.  The clock runs in ticks, TicksPerSecond
   of them to a second, as datetime.utcnow() is finer than the whole seconds a
   token's exp claim is kept in. *)

TicksPerSecond == 2

Seconds(n) == n * TicksPerSecond
Minutes(n) == Seconds(n * 60)
Hours(n) == Minutes(n * 60)
Days(n) == Hours(n * 24)

ACCESS_TOKEN_EXPIRE_MINUTES == 15
REFRESH_TOKEN_EXPIRE_DAYS == 7
RESET_TOKEN_EXPIRE_HOURS == 1
VERIFICATION_TOKEN_EXPIRE_HOURS == 24

ACCESS_TOKEN_TYPE == "access"
REFRESH_TOKEN_TYPE == "refresh"
RESET_TOKEN_TYPE == "reset"
VERIFICATION_TOKEN_TYPE == "verification"
TokenTypes == {ACCESS_TOKEN_TYPE, REFRESH_TOKEN_TYPE, RESET_TOKEN_TYPE,
               VERIFICATION_TOKEN_TYPE}

SECRET_KEY == "SECRET_KEY"

(* What decode_token returns for a token it does not take *)
NoPayload == [type |-> "none"]

(* calendar.timegm(dt.utctimetuple()): the whole seconds of an instant *)
timegm(t) == t \div TicksPerSecond

(* jose.jwt.encode: a datetime exp becomes whole seconds; the signature is the
   key the token was signed with *)
jwt_encode(claims, key) ==
    [sub |-> claims.sub, type |-> claims.type, exp |-> timegm(claims.exp),
     key |-> key]

(* jose.jwt.decode failing: a bad signature, or exp < the clock's whole seconds *)
JWTError(token, key) ==
    \/ token.key # key
    \/ token.exp < timegm(now)

jwt_payload(token) == [sub |-> token.sub, type |-> token.type, exp |-> token.exp]

create_access_token(data) ==
    jwt_encode([sub |-> data.sub,
                exp |-> now + Minutes(ACCESS_TOKEN_EXPIRE_MINUTES),
                type |-> ACCESS_TOKEN_TYPE], SECRET_KEY)

create_refresh_token(data) ==
    jwt_encode([sub |-> data.sub,
                exp |-> now + Days(REFRESH_TOKEN_EXPIRE_DAYS),
                type |-> REFRESH_TOKEN_TYPE], SECRET_KEY)

create_reset_token(email) ==
    jwt_encode([sub |-> email,
                exp |-> now + Hours(RESET_TOKEN_EXPIRE_HOURS),
                type |-> RESET_TOKEN_TYPE], SECRET_KEY)

create_verification_token(email) ==
    jwt_encode([sub |-> email,
                exp |-> now + Hours(VERIFICATION_TOKEN_EXPIRE_HOURS),
                type |-> VERIFICATION_TOKEN_TYPE], SECRET_KEY)

(* decode_token with the payload's type never compared *)
decode_token_any_type(token, expected_type) ==
    IF JWTError(token, SECRET_KEY) THEN NoPayload ELSE jwt_payload(token)

(* expected_type is Null when the caller gives none *)
decode_token(token, expected_type) ==
    IF JWTError(token, SECRET_KEY)
    THEN NoPayload
    ELSE IF expected_type # Null /\ token.type # expected_type
    THEN NoPayload
    ELSE jwt_payload(token)

verify_token(token, expected_type) ==
    LET payload == decode_token(token, expected_type)
    IN  IF payload = NoPayload
        THEN Null
        ELSE IF payload.sub # "" THEN payload.sub ELSE Null

(* The time a token of the type lives, in ticks *)
TokenTTL(type) ==
    CASE type = ACCESS_TOKEN_TYPE -> Minutes(ACCESS_TOKEN_EXPIRE_MINUTES)
      [] type = REFRESH_TOKEN_TYPE -> Days(REFRESH_TOKEN_EXPIRE_DAYS)
      [] type = RESET_TOKEN_TYPE -> Hours(RESET_TOKEN_EXPIRE_HOURS)
      [] type = VERIFICATION_TOKEN_TYPE -> Hours(VERIFICATION_TOKEN_EXPIRE_HOURS)

-----------------------------------------------------------------------------
(* The token specification: tokens of the four types are created at the clock's
   time and decoded at later times.  tokens keeps every token created with the
   instant it was created at. *)

MaxTokens == 1
(* Tokens are created up to this instant of the clock *)
MaxIssueTick == 1

(* The instants the clock visits: the start, a tick after it, 14 and 16 minutes,
   and around the end of each type's life: the instant itself, a tick after it
   and a second after it *)
Instants ==
    {0, 1, Minutes(14), Minutes(16)}
    \cup UNION { {TokenTTL(k), TokenTTL(k) + 1, TokenTTL(k) + Seconds(1)} :
                 k \in TokenTypes }

Subjects == {"1"}
ResetEmails == {"a@x.io"}

(* Every token in flight, and each of them re-signed with another key *)
PresentedTokens ==
    { t.token : t \in tokens }
    \cup { [t.token EXCEPT !.key = "other"] : t \in tokens }

IssuedAt(token) ==
    IF \E t \in tokens : t.token = token
    THEN (CHOOSE t \in tokens : t.token = token).issued
    ELSE 0

StoreUnchanged ==
    /\ UNCHANGED <<users, categories, tasks, nextUserId, nextCategoryId, nextTaskId,
                   pending>>
    /\ Elsewhere

Issue(op, token) ==
    /\ tokens' = tokens \cup {[token |-> token, issued |-> now]}
    /\ last' = Ok(op, NoId, NoId, NoRow, 0, token)
    /\ UNCHANGED now
    /\ StoreUnchanged

CreateAccessToken(sub) == Issue("create_access_token", create_access_token([sub |-> sub]))
CreateRefreshToken(sub) == Issue("create_refresh_token", create_refresh_token([sub |-> sub]))
CreateResetToken(email) == Issue("create_reset_token", create_reset_token(email))
CreateVerificationToken(email) ==
    Issue("create_verification_token", create_verification_token(email))

(* last keeps the token, the type asked for, the instant the token was created
   at and the instant of the call *)
DecodeToken(token, expected_type) ==
    /\ last' = Ok("decode_token", NoId, NoId,
                  [token |-> token, expected_type |-> expected_type,
                   issued |-> IssuedAt(token), at |-> now],
                  0, decode_token(token, expected_type))
    /\ UNCHANGED <<tokens, now>>
    /\ StoreUnchanged

VerifyToken(token, expected_type) ==
    /\ last' = Ok("verify_token", NoId, NoId,
                  [token |-> token, expected_type |-> expected_type,
                   issued |-> IssuedAt(token), at |-> now],
                  0, [sub |-> verify_token(token, expected_type)])
    /\ UNCHANGED <<tokens, now>>
    /\ StoreUnchanged

Tick(t) ==
    /\ t > now
    /\ now' = t
    /\ UNCHANGED <<tokens, last>>
    /\ StoreUnchanged

InitToken ==
    /\ users = {}
    /\ categories = {}
    /\ tasks = {}
    /\ nextUserId = 1
    /\ nextCategoryId = 1
    /\ nextTaskId = 1
    /\ pending = {}
    /\ InitElsewhere
    /\ now = 0
    /\ tokens = {}
    /\ last = NoRequest

NextToken ==
    \/ \E sub \in Subjects :
          /\ Cardinality(tokens) < MaxTokens
          /\ now <= MaxIssueTick
          /\ CreateAccessToken(sub)
    \/ \E sub \in Subjects :
          /\ Cardinality(tokens) < MaxTokens
          /\ now <= MaxIssueTick
          /\ CreateRefreshToken(sub)
    \/ \E email \in ResetEmails :
          /\ Cardinality(tokens) < MaxTokens
          /\ now <= MaxIssueTick
          /\ CreateResetToken(email)
    \/ \E email \in ResetEmails :
          /\ Cardinality(tokens) < MaxTokens
          /\ now <= MaxIssueTick
          /\ CreateVerificationToken(email)
    \/ \E token \in PresentedTokens, e \in TokenTypes \cup {Null} :
          DecodeToken(token, e)
    \/ \E token \in PresentedTokens, e \in TokenTypes : VerifyToken(token, e)
    \/ \E t \in Instants : Tick(t)

SpecToken == InitToken /\ [][NextToken]_vars

-----------------------------------------------------------------------------
(* models/user.py: users.email and users.username are NOT NULL and UNIQUE *)

(* The table with NOT NULL alone, the unique indexes missing *)
UserConstraintsNotUnique(usrs) ==
    \A u \in usrs : u.email # Null /\ u.username # Null

UserConstraints(usrs) ==
    /\ \A u \in usrs : u.email # Null /\ u.username # Null
    /\ \A u1, u2 \in usrs :
         (u1.id = u2.id \/ u1.email = u2.email \/ u1.username = u2.username)
         => u1 = u2

(* passlib's bcrypt context: the hash keeps what verify compares *)
get_password_hash(password) == <<"bcrypt", password>>
verify_password(plain_password, hashed_password) == hashed_password[2] = plain_password

(* UserRepository *)
get_by_email(email) == { u \in users : u.email = email }
get_by_username(username) == { u \in users : u.username = username }
get_by_email_or_username(identifier) ==
    { u \in users : u.email = identifier \/ u.username = identifier }

(* email_exists that finds nothing *)
email_exists_never(email) == FALSE

email_exists(email) == get_by_email(email) # {}
username_exists(username) == get_by_username(username) # {}

(* schemas/user.py UserResponse *)
UserResponse(u) ==
    [id |-> u.id, email |-> u.email, username |-> u.username,
     full_name |-> u.full_name, is_active |-> u.is_active,
     is_verified |-> u.is_verified]

AuthenticationError(message) == [status |-> 401, detail |-> message]
InactiveUserError == [status |-> 403, detail |-> "User account is inactive"]
NoError == [status |-> 0, detail |-> "none"]

-----------------------------------------------------------------------------
(* AuthService and the /users/me handlers.  A handler that checks and then
   writes is given in its two parts, the queries before the write and the write
   with its commit, and as the whole request. *)

IdentityResult(resp, usrs) == [response |-> resp, users |-> usrs]

(* AuthService.register up to user_repository.create *)
register_check(user_in) ==
    IF email_exists(user_in.email)
    THEN AlreadyExistsError("Email already registered")
    ELSE IF username_exists(user_in.username)
    THEN AlreadyExistsError("Username already taken")
    ELSE NoError

register_write_inactive(user_in) ==
    LET op == "register"
        user == [id |-> nextUserId, email |-> user_in.email,
                 username |-> user_in.username, full_name |-> user_in.full_name,
                 hashed_password |-> get_password_hash(user_in.password),
                 is_active |-> FALSE, is_verified |-> FALSE]
    IN  IdentityResult(
            Ok(op, NoId, user.id, user_in, 201,
               [user |-> UserResponse(user),
                verification_token |-> create_verification_token(user.email)]),
            users \cup {user})

(* user_repository.create, commit, and the response *)
register_write(user_in) ==
    LET op == "register"
        user == [id |-> nextUserId, email |-> user_in.email,
                 username |-> user_in.username, full_name |-> user_in.full_name,
                 hashed_password |-> get_password_hash(user_in.password),
                 is_active |-> TRUE, is_verified |-> FALSE]
    IN  IF ~UserConstraints(users \cup {user})
        THEN IdentityResult(Raise(op, NoId, NoId, user_in, DatabaseError), users)
        ELSE IdentityResult(
                 Ok(op, NoId, user.id, user_in, 201,
                    [user |-> UserResponse(user),
                     verification_token |-> create_verification_token(user.email)]),
                 users \cup {user})

register(user_in) ==
    LET err == register_check(user_in)
    IN  IF err # NoError
        THEN IdentityResult(Raise("register", NoId, NoId, user_in, err), users)
        ELSE register_write(user_in)

(* The identity authenticate returns, or the error it raises; two rows for the
   identifier make scalar_one_or_none raise MultipleResultsFound *)
authenticate(username, password) ==
    LET found == get_by_email_or_username(username)
        user == CHOOSE u \in found : TRUE
    IN  IF Cardinality(found) > 1
        THEN [error |-> DatabaseError, user |-> NoRow]
        ELSE IF found = {}
        THEN [error |-> AuthenticationError("Incorrect username or password"),
              user |-> NoRow]
        ELSE IF ~verify_password(password, user.hashed_password)
        THEN [error |-> AuthenticationError("Incorrect username or password"),
              user |-> NoRow]
        ELSE IF ~user.is_active
        THEN [error |-> InactiveUserError, user |-> NoRow]
        ELSE [error |-> NoError, user |-> user]

(* POST /auth/login: AuthenticationError and InactiveUserError both leave as 401 *)
login(username, password) ==
    LET op == "login"
        arg == [username |-> username, password |-> password]
        r == authenticate(username, password)
    IN  IF r.error = DatabaseError
        THEN Raise(op, NoId, NoId, arg, DatabaseError)
        ELSE IF r.error # NoError
        THEN Raise(op, NoId, NoId, arg, [status |-> 401, detail |-> r.error.detail])
        ELSE Ok(op, NoId, NoId, arg, 200,
                [access_token |-> create_access_token([sub |-> ToString(r.user.id)]),
                 refresh_token |-> create_refresh_token([sub |-> ToString(r.user.id)]),
                 token_type |-> "bearer"])

(* PUT /users/me up to user_repository.update; the body is update_data *)
update_my_profile_check(current_user_id, update_data) ==
    IF /\ "email" \in DOMAIN update_data
       /\ \E x \in get_by_email(update_data["email"]) : x.id # current_user_id
    THEN [status |-> 409, detail |-> "Email already registered"]
    ELSE IF /\ "username" \in DOMAIN update_data
            /\ \E x \in get_by_username(update_data["username"]) :
                 x.id # current_user_id
    THEN [status |-> 409, detail |-> "Username already taken"]
    ELSE NoError

(* update_data as the handler passes it on: a new email is unverified again *)
ProfileUpdateData(update_data) ==
    IF "email" \in DOMAIN update_data
    THEN update_data @@ ("is_verified" :> FALSE)
    ELSE update_data

(* user_repository.update with its flush, and commit: the UPDATE of a row that
   is gone matches nothing and the flush raises StaleDataError *)
update_my_profile_write(current_user_id, update_data) ==
    LET op == "update_my_profile"
        found == { x \in users : x.id = current_user_id }
        row == CHOOSE x \in found : TRUE
        updated == RepoUpdate(row, ProfileUpdateData(update_data))
        usrs == (users \ {row}) \cup {updated}
    IN  IF found = {}
        THEN IdentityResult(Raise(op, current_user_id, NoId, update_data,
                                  DatabaseError), users)
        ELSE IF ~UserConstraints(usrs)
        THEN IdentityResult(Raise(op, current_user_id, NoId, update_data,
                                  DatabaseError), users)
        ELSE IdentityResult(Ok(op, current_user_id, NoId, update_data, 200,
                               UserResponse(updated)), usrs)

update_my_profile(current_user, update_data) ==
    LET op == "update_my_profile"
        err == update_my_profile_check(current_user.id, update_data)
    IN  IF DOMAIN update_data = {}
        THEN IdentityResult(Ok(op, current_user.id, NoId, update_data, 200,
                               UserResponse(current_user)), users)
        ELSE IF err # NoError
        THEN IdentityResult(Raise(op, current_user.id, NoId, update_data, err),
                            users)
        ELSE update_my_profile_write(current_user.id, update_data)

-----------------------------------------------------------------------------
(* The identity specifications.  SpecAuth runs every request as one step.
   SpecInterleave runs register and the profile update as two steps, the checks
   and the write, so that other requests run between a request's checks and its
   commit; pending holds the requests that have passed their checks. *)

MaxUserId == 2
MaxPending == 2

Emails == {"a@x.io", "c@x.io"}
(* UserBase.username is any string of 3 to 50 characters *)
Usernames == {"alice", "a@x.io"}
Passwords == {"pw1", "pw2"}

UserCreates ==
    [email : Emails, username : Usernames, password : {"pw1"}, full_name : {Null}]

(* UserUpdate bodies, as model_dump(exclude_unset=True) gives them *)
UserUpdates ==
    {<<>>}
    \cup { "email" :> e : e \in Emails \cup {Null} }
    \cup { "username" :> n : n \in Usernames }

ResourcesUnchanged ==
    /\ UNCHANGED <<categories, tasks, nextCategoryId, nextTaskId, now, tokens>>
    /\ Elsewhere

Register(user_in) ==
    LET r == register(user_in) IN
    /\ users' = r.users
    /\ nextUserId' = IF r.response.status = 201 THEN nextUserId + 1 ELSE nextUserId
    /\ last' = r.response
    /\ UNCHANGED pending
    /\ ResourcesUnchanged

Login(username, password) ==
    /\ last' = login(username, password)
    /\ UNCHANGED <<users, nextUserId, pending>>
    /\ ResourcesUnchanged

UpdateMyProfile(u, update_data) ==
    LET r == update_my_profile(u, update_data) IN
    /\ users' = r.users
    /\ last' = r.response
    /\ UNCHANGED <<nextUserId, pending>>
    /\ ResourcesUnchanged

(* A request that has passed its checks, in the first free slot *)
FreeSlot == CHOOSE n \in 1..(Cardinality(pending) + 1) :
                \A p \in pending : p.slot # n

RegisterCheck(user_in) ==
    LET err == register_check(user_in) IN
    /\ IF err # NoError
       THEN /\ last' = Raise("register", NoId, NoId, user_in, err)
            /\ UNCHANGED pending
       ELSE /\ pending' = pending \cup {[slot |-> FreeSlot, op |-> "register",
                                         user |-> NoId, data |-> user_in]}
            /\ UNCHANGED last
    /\ UNCHANGED <<users, nextUserId>>
    /\ ResourcesUnchanged

RegisterWrite(p) ==
    LET r == register_write(p.data) IN
    /\ p.op = "register"
    /\ users' = r.users
    /\ nextUserId' = IF r.response.status = 201 THEN nextUserId + 1 ELSE nextUserId
    /\ last' = r.response
    /\ pending' = pending \ {p}
    /\ ResourcesUnchanged

UpdateMyProfileCheck(u, update_data) ==
    LET op == "update_my_profile"
        err == update_my_profile_check(u.id, update_data)
    IN
    /\ IF DOMAIN update_data = {}
       THEN /\ last' = Ok(op, u.id, NoId, update_data, 200, UserResponse(u))
            /\ UNCHANGED pending
       ELSE IF err # NoError
       THEN /\ last' = Raise(op, u.id, NoId, update_data, err)
            /\ UNCHANGED pending
       ELSE /\ pending' = pending \cup {[slot |-> FreeSlot, op |-> op,
                                         user |-> u.id, data |-> update_data]}
            /\ UNCHANGED last
    /\ UNCHANGED <<users, nextUserId>>
    /\ ResourcesUnchanged

UpdateMyProfileWrite(p) ==
    LET r == update_my_profile_write(p.user, p.data) IN
    /\ p.op = "update_my_profile"
    /\ users' = r.users
    /\ last' = r.response
    /\ pending' = pending \ {p}
    /\ UNCHANGED nextUserId
    /\ ResourcesUnchanged

InitAuth ==
    /\ users = {}
    /\ categories = {}
    /\ tasks = {}
    /\ nextUserId = 1
    /\ nextCategoryId = 1
    /\ nextTaskId = 1
    /\ pending = {}
    /\ InitElsewhere
    /\ now = 0
    /\ tokens = {}
    /\ last = NoRequest

NextAuth ==
    \/ \E user_in \in UserCreates : nextUserId <= MaxUserId /\ Register(user_in)
    \/ \E username \in Emails \cup Usernames, password \in Passwords :
          Login(username, password)
    \/ \E u \in CurrentActiveUsers, d \in UserUpdates : UpdateMyProfile(u, d)
    \/ \E u \in CurrentActiveUsers : DeleteMyAccount(u)

SpecAuth == InitAuth /\ [][NextAuth]_vars

PendingRegisters == { p \in pending : p.op = "register" }

NextInterleave ==
    \/ \E user_in \in UserCreates :
          /\ nextUserId + Cardinality(PendingRegisters) <= MaxUserId
          /\ Cardinality(pending) < MaxPending
          /\ RegisterCheck(user_in)
    \/ \E p \in pending : RegisterWrite(p)
    \/ \E u \in CurrentActiveUsers, d \in UserUpdates :
          Cardinality(pending) < MaxPending /\ UpdateMyProfileCheck(u, d)
    \/ \E p \in pending : UpdateMyProfileWrite(p)
    \/ \E u \in CurrentActiveUsers : DeleteMyAccount(u)

SpecInterleave == InitAuth /\ [][NextInterleave]_vars

-----------------------------------------------------------------------------
(* TaskRepository.get_with_filters and GET /tasks *)

(* PostgreSQL lower() on the characters the model's texts use *)
Lower(c) ==
    CASE c = "A" -> "a"
      [] c = "B" -> "b"
      [] OTHER -> c

(* text LIKE pattern with ILIKE's case folding: % matches any run of characters,
   _ any one character, and a backslash takes the next character literally *)
RECURSIVE ILike(_, _)
ILike(text, pattern) ==
    IF pattern = <<>>
    THEN text = <<>>
    ELSE IF Head(pattern) = "%"
    THEN \/ ILike(text, Tail(pattern))
         \/ text # <<>> /\ ILike(Tail(text), pattern)
    ELSE IF text = <<>>
    THEN FALSE
    ELSE IF Head(pattern) = "_"
    THEN ILike(Tail(text), Tail(pattern))
    ELSE IF Head(pattern) = "\\" /\ Len(pattern) > 1
    THEN /\ Lower(Head(text)) = Lower(pattern[2])
         /\ ILike(Tail(text), Tail(Tail(pattern)))
    ELSE /\ Lower(Head(text)) = Lower(Head(pattern))
         /\ ILike(Tail(text), Tail(pattern))

(* column.ilike(pattern): NULL for a NULL column, which WHERE takes as false *)
ColumnILike(column, pattern) == column # NullText /\ ILike(column, pattern)

(* search_term = f"%{search}%" and the two ilike conditions *)
SearchMatches(t, search) ==
    LET search_term == <<"%">> \o search \o <<"%">>
    IN  ColumnILike(t.title, search_term) \/ ColumnILike(t.description, search_term)

(* The WHERE clause get_with_filters builds: a filter that is None, or an empty
   search, adds no condition *)
FilterWhere(t, user_id, f) ==
    /\ t.user_id = user_id
    /\ f.status # Null => t.status = f.status
    /\ f.priority # Null => t.priority = f.priority
    /\ f.category_id # NoId => t.category_id = f.category_id
    /\ (f.search # NullText /\ f.search # <<>>) => SearchMatches(t, f.search)
    /\ f.due_date_from # NoDue => (t.due_date # NoDue /\ t.due_date >= f.due_date_from)
    /\ f.due_date_to # NoDue => (t.due_date # NoDue /\ t.due_date <= f.due_date_to)

(* ORDER BY created_at DESC: every order of the rows the key allows *)
RECURSIVE OrderedByCreatedAtDesc(_)
OrderedByCreatedAtDesc(rows) ==
    IF rows = {} THEN { <<>> }
    ELSE LET newest == { r \in rows :
                           \A q \in rows : r.created_at >= q.created_at }
         IN  UNION { { <<r>> \o o : o \in OrderedByCreatedAtDesc(rows \ {r}) } :
                     r \in newest }

Min(a, b) == IF a <= b THEN a ELSE b

PageOneMore(o, skip, limit) == SubSeq(o, skip + 1, Min(skip + limit + 1, Len(o)))

(* OFFSET skip LIMIT limit *)
Page(o, skip, limit) == SubSeq(o, skip + 1, Min(skip + limit, Len(o)))

(* The (tasks, total) pairs the two queries can give *)
get_with_filters(user_id, f) ==
    LET matching == { t \in tasks : FilterWhere(t, user_id, f) }
    IN  { [tasks |-> Page(o, f.skip, f.limit), total |-> Cardinality(matching)] :
          o \in OrderedByCreatedAtDesc(matching) }

(* Task.is_overdue *)
is_overdue(t) ==
    IF t.due_date # NoDue /\ t.status # COMPLETED THEN now > t.due_date ELSE FALSE

TaskResponse(t) == [task |-> t, is_overdue |-> is_overdue(t)]

(* TaskService.get_tasks_with_filters and the handler get_my_tasks: the
   responses the request can get *)
get_my_tasks(u, f) ==
    LET op == "get_my_tasks" IN
    IF f.category_id # NoId /\ category_get_by_user_and_id(u.id, f.category_id) = {}
    THEN { Raise(op, u.id, NoId, f, NotFoundError("Category not found")) }
    ELSE { Ok(op, u.id, NoId, f, 200,
              [items |-> [i \in 1..Len(r.tasks) |-> TaskResponse(r.tasks[i])],
               total |-> r.total,
               page |-> (f.skip \div f.limit) + 1,
               page_size |-> f.limit,
               total_pages |-> IF r.total > 0
                               THEN (r.total + f.limit - 1) \div f.limit
                               ELSE 0]) :
           r \in get_with_filters(u.id, f) }

GetMyTasks(u, f) ==
    /\ last' \in get_my_tasks(u, f)
    /\ UNCHANGED <<categories, tasks, nextCategoryId, nextTaskId>>
    /\ IdentityUnchanged

-----------------------------------------------------------------------------
(* The query specification: the tables hold up to MaxQueryTasks rows of a
   catalogue of tasks, and the two identities query them *)

MaxQueryTasks == 3
MaxFilters == 2

WorkCategory == [id |-> 1, user_id |-> 1, name |-> "Work", color |-> DefaultColor]

TaskRow(id, user_id, title, description, status, priority, due, category_id, at) ==
    [id |-> id, user_id |-> user_id, title |-> title, description |-> description,
     status |-> status, priority |-> priority, due_date |-> due,
     category_id |-> category_id, created_at |-> at]

Catalogue ==
    { TaskRow(1, 1, <<"a", "b">>, NullText, TODO, MEDIUM, NoDue, 1, 0),
      TaskRow(2, 1, <<"A">>, <<"b">>, TODO, HIGH, 5, NoId, 1),
      TaskRow(3, 1, <<"b">>, NullText, COMPLETED, MEDIUM, 9, NoId, 1),
      TaskRow(4, 1, <<"a", "_">>, <<"%">>, IN_PROGRESS, HIGH, 5, 1, 2),
      TaskRow(5, 2, <<"a", "b">>, NullText, TODO, MEDIUM, NoDue, NoId, 0),
      TaskRow(6, 2, <<"B">>, <<"a">>, COMPLETED, HIGH, 9, NoId, 2) }

NoFilters ==
    [status |-> Null, priority |-> Null, category_id |-> NoId,
     search |-> NullText, due_date_from |-> NoDue, due_date_to |-> NoDue]

FilterFields == DOMAIN NoFilters

(* Up to MaxFilters filters supplied, on the first page of ten or the second
   page of one *)
TaskFilters ==
    { f \in [status : {Null, TODO, COMPLETED}, priority : {Null, HIGH},
             category_id : {NoId} \cup StoreCategoryIds \cup {MaxStoreCategoryId + 1},
             search : {NullText, <<>>, <<"a">>, <<"B">>, <<"_">>, <<"%">>},
             due_date_from : {NoDue, 5}, due_date_to : {NoDue, 5}] :
        Cardinality({ k \in FilterFields : f[k] # NoFilters[k] }) <= MaxFilters }

Pages == { [skip |-> 0, limit |-> 10], [skip |-> 1, limit |-> 1] }

TaskQueries == { f @@ p : f \in TaskFilters, p \in Pages }

InitQuery ==
    /\ users = {Alice, Bob}
    /\ categories = {WorkCategory}
    /\ tasks \in { s \in SUBSET Catalogue : Cardinality(s) <= MaxQueryTasks }
    /\ nextUserId = 3
    /\ nextCategoryId = 2
    /\ nextTaskId = 7
    /\ pending = {}
    /\ InitElsewhere
    /\ now = 7
    /\ tokens = {}
    /\ last = NoRequest

NextQuery ==
    \E u \in CurrentActiveUsers, f \in TaskQueries : GetMyTasks(u, f)

SpecQuery == InitQuery /\ [][NextQuery]_vars

-----------------------------------------------------------------------------
(* The paging specification: the first identity owns up to MaxPageTasks tasks
   created one tick apart, a third of them completed, and both identities
   list their tasks page by page *)

MaxPageTasks == 15

PageTasks(n) ==
    { TaskRow(i, 1, <<"t">>, NullText, IF i % 3 = 0 THEN COMPLETED ELSE TODO,
              MEDIUM, NoDue, NoId, i) : i \in 1..n }

(* skip: Query(0, ge=0), limit: Query(10, ge=1, le=100) *)
PageQueries ==
    { [NoFilters EXCEPT !.status = s] @@ [skip |-> k, limit |-> l] :
        s \in {Null, COMPLETED}, k \in {0, 1, 10, 15, 20}, l \in {1, 4, 10, 100} }

InitPage ==
    /\ users = {Alice, Bob}
    /\ categories = {}
    /\ tasks \in { PageTasks(n) : n \in 0..MaxPageTasks }
    /\ nextUserId = 3
    /\ nextCategoryId = 1
    /\ nextTaskId = MaxPageTasks + 2
    /\ pending = {}
    /\ InitElsewhere
    /\ now = MaxPageTasks + 1
    /\ tokens = {}
    /\ last = NoRequest

NextPage ==
    \E u \in CurrentActiveUsers, f \in PageQueries : GetMyTasks(u, f)

SpecPage == InitPage /\ [][NextPage]_vars

-----------------------------------------------------------------------------
(* The overdue listing *)

(* ORDER BY due_date ASC: every order of the rows the key allows *)
RECURSIVE OrderedByDueDateAsc(_)
OrderedByDueDateAsc(rows) ==
    IF rows = {} THEN { <<>> }
    ELSE LET soonest == { r \in rows : \A q \in rows : r.due_date <= q.due_date }
         IN  UNION { { <<r>> \o o : o \in OrderedByDueDateAsc(rows \ {r}) } :
                     r \in soonest }

task_get_overdue_tasks_any_status(user_id, skip, limit) ==
    LET overdue == { t \in tasks : /\ t.user_id = user_id
                                   /\ t.due_date # NoDue
                                   /\ t.due_date < now }
    IN  { Page(o, skip, limit) : o \in OrderedByDueDateAsc(overdue) }

(* TaskRepository.get_overdue_tasks: a NULL due_date compares as unknown and
   the row is left out *)
task_get_overdue_tasks(user_id, skip, limit) ==
    LET overdue == { t \in tasks : /\ t.user_id = user_id
                                   /\ t.status # COMPLETED
                                   /\ t.due_date # NoDue
                                   /\ t.due_date < now }
    IN  { Page(o, skip, limit) : o \in OrderedByDueDateAsc(overdue) }

(* The handler get_overdue_tasks: the responses the request can get *)
get_overdue_tasks(u, p) ==
    { Ok("get_overdue_tasks", u.id, NoId, p, 200,
         [items |-> [i \in 1..Len(r) |-> TaskResponse(r[i])]]) :
      r \in task_get_overdue_tasks(u.id, p.skip, p.limit) }

GetOverdueTasks(u, p) ==
    /\ last' \in get_overdue_tasks(u, p)
    /\ UNCHANGED <<categories, tasks, nextCategoryId, nextTaskId>>
    /\ IdentityUnchanged

(* Task statistics *)

(* TaskRepository.count_user_tasks: COUNT(id) of the owner's rows, of one
   status when a status is given *)
count_user_tasks(user_id, status) ==
    Cardinality({ t \in tasks : /\ t.user_id = user_id
                                /\ (status # Null => t.status = status) })

StatisticsBody(total, todo, in_progress, completed, archived, overdue_count) ==
    [total |-> total,
     by_status |-> [todo |-> todo, in_progress |-> in_progress,
                    completed |-> completed, archived |-> archived],
     overdue |-> overdue_count]

(* TaskService.get_task_statistics with nothing running between its six
   queries: the overdue count is the length of the first page of one *)
task_service_get_task_statistics(user_id) ==
    { StatisticsBody(count_user_tasks(user_id, Null),
                     count_user_tasks(user_id, TODO),
                     count_user_tasks(user_id, IN_PROGRESS),
                     count_user_tasks(user_id, COMPLETED),
                     count_user_tasks(user_id, ARCHIVED),
                     Len(overdue_tasks)) :
      overdue_tasks \in task_get_overdue_tasks(user_id, 0, 1) }

(* GET /tasks/statistics *)
get_task_statistics(u) ==
    { Ok("get_task_statistics", u.id, NoId, NoRequest, 200, stats) :
      stats \in task_service_get_task_statistics(u.id) }

GetTaskStatistics(u) ==
    /\ last' \in get_task_statistics(u)
    /\ UNCHANGED <<categories, tasks, nextCategoryId, nextTaskId>>
    /\ IdentityUnchanged

(* The overdue specification: up to MaxQueryTasks rows of the catalogue, read
   before, at and after their due instants *)

OverdueInstants == {4, 5, 6, 9, 10}

OverduePages ==
    { [skip |-> 0, limit |-> 10], [skip |-> 0, limit |-> 1], [skip |-> 1, limit |-> 10] }

InitOverdue ==
    /\ users = {Alice, Bob}
    /\ categories = {WorkCategory}
    /\ tasks \in { s \in SUBSET Catalogue : Cardinality(s) <= MaxQueryTasks }
    /\ nextUserId = 3
    /\ nextCategoryId = 2
    /\ nextTaskId = 7
    /\ pending = {}
    /\ InitElsewhere
    /\ now \in OverdueInstants
    /\ tokens = {}
    /\ last = NoRequest

NextOverdue ==
    \/ \E u \in CurrentActiveUsers, p \in OverduePages : GetOverdueTasks(u, p)
    \/ \E u \in CurrentActiveUsers, p \in OverduePages : GetMyTasks(u, NoFilters @@ p)
    \/ \E u \in CurrentActiveUsers : GetTaskStatistics(u)

SpecOverdue == InitOverdue /\ [][NextOverdue]_vars

-----------------------------------------------------------------------------
(* Password reset and email verification *)

InvalidTokenError(message) == [status |-> 401, detail |-> message]

(* HTTPException(status_code=400, detail=str(e)) raised by a handler *)
BadRequest(e) == [status |-> 400, detail |-> e.detail]

(* request_password_reset that creates a token for a registered email only *)
request_password_reset_registered_only(email) ==
    IF get_by_email(email) = {}
    THEN NoPayload
    ELSE create_reset_token(email)

(* AuthService.request_password_reset: both branches create the token *)
auth_service_request_password_reset(email) ==
    IF get_by_email(email) = {}
    THEN create_reset_token(email)
    ELSE create_reset_token(email)

reset_password_any_token(reset_data) ==
    LET found == get_by_email(reset_data.token.sub)
        user == CHOOSE u \in found : TRUE
        updated == RepoUpdate(user, "hashed_password" :>
                                      get_password_hash(reset_data.new_password))
    IN  IF found = {}
        THEN [error |-> NotFoundError("User not found"), users |-> users]
        ELSE [error |-> NoError, users |-> (users \ {user}) \cup {updated}]

(* AuthService.reset_password *)
auth_service_reset_password(reset_data) ==
    LET email == verify_token(reset_data.token, RESET_TOKEN_TYPE)
        found == get_by_email(email)
        user == CHOOSE u \in found : TRUE
        updated == RepoUpdate(user, "hashed_password" :>
                                      get_password_hash(reset_data.new_password))
    IN  IF email = Null
        THEN [error |-> InvalidTokenError("Invalid or expired reset token"),
              users |-> users]
        ELSE IF found = {}
        THEN [error |-> NotFoundError("User not found"), users |-> users]
        ELSE [error |-> NoError, users |-> (users \ {user}) \cup {updated}]

verify_email_any_token(token) ==
    LET found == get_by_email(token.sub)
        user == CHOOSE u \in found : TRUE
        updated == RepoUpdate(user, "is_verified" :> TRUE)
    IN  IF found = {}
        THEN [error |-> NotFoundError("User not found"), users |-> users]
        ELSE [error |-> NoError, users |-> (users \ {user}) \cup {updated}]

(* AuthService.verify_email *)
auth_service_verify_email(token) ==
    LET email == verify_token(token, VERIFICATION_TOKEN_TYPE)
        found == get_by_email(email)
        user == CHOOSE u \in found : TRUE
        updated == RepoUpdate(user, "is_verified" :> TRUE)
    IN  IF email = Null
        THEN [error |-> InvalidTokenError("Invalid or expired verification token"),
              users |-> users]
        ELSE IF found = {}
        THEN [error |-> NotFoundError("User not found"), users |-> users]
        ELSE [error |-> NoError, users |-> (users \ {user}) \cup {updated}]

(* AuthService.resend_verification *)
auth_service_resend_verification(email) ==
    IF get_by_email(email) = {}
    THEN [error |-> NotFoundError("User not found"), token |-> NoPayload]
    ELSE [error |-> NoError, token |-> create_verification_token(email)]

(* POST /auth/password-reset/request *)
request_password_reset(email) ==
    Ok("request_password_reset", NoId, NoId, [email |-> email], 200,
       [message |-> "If the email exists, a password reset link has been sent.",
        reset_token |-> auth_service_request_password_reset(email)])

(* POST /auth/password-reset/confirm: InvalidTokenError and NotFoundError both
   leave as 400 *)
reset_password(reset_data) ==
    LET op == "reset_password"
        r == auth_service_reset_password(reset_data)
    IN  IF r.error # NoError
        THEN IdentityResult(Raise(op, NoId, NoId, reset_data, BadRequest(r.error)),
                            r.users)
        ELSE IdentityResult(Ok(op, NoId, NoId, reset_data, 200,
                               [message |-> "Password reset successfully"]),
                            r.users)

(* POST /auth/verify-email: InvalidTokenError and NotFoundError both leave as
   400 *)
verify_email(token) ==
    LET op == "verify_email"
        arg == [token |-> token]
        r == auth_service_verify_email(token)
    IN  IF r.error # NoError
        THEN IdentityResult(Raise(op, NoId, NoId, arg, BadRequest(r.error)), r.users)
        ELSE IdentityResult(Ok(op, NoId, NoId, arg, 200,
                               [message |-> "Email verified successfully"]),
                            r.users)

(* POST /auth/resend-verification *)
resend_verification(email) ==
    LET op == "resend_verification"
        arg == [email |-> email]
        r == auth_service_resend_verification(email)
    IN  IF r.error # NoError
        THEN Raise(op, NoId, NoId, arg, r.error)
        ELSE Ok(op, NoId, NoId, arg, 200,
                [message |-> "Verification email sent",
                 verification_token |-> r.token])

(* The client keeps the token a response carries *)
Received(token) == tokens \cup {[token |-> token, issued |-> now]}

RequestPasswordReset(email) ==
    /\ last' = request_password_reset(email)
    /\ tokens' = Received(last'.body.reset_token)
    /\ UNCHANGED <<users, nextUserId, pending, now>>
    /\ UNCHANGED <<categories, tasks, nextCategoryId, nextTaskId>>
    /\ Elsewhere

ResetPassword(reset_data) ==
    LET r == reset_password(reset_data) IN
    /\ users' = r.users
    /\ last' = r.response
    /\ UNCHANGED <<nextUserId, pending>>
    /\ ResourcesUnchanged

VerifyEmail(token) ==
    LET r == verify_email(token) IN
    /\ users' = r.users
    /\ last' = r.response
    /\ UNCHANGED <<nextUserId, pending>>
    /\ ResourcesUnchanged

ResendVerification(email) ==
    /\ last' = resend_verification(email)
    /\ tokens' = IF last'.status = 200
                 THEN Received(last'.body.verification_token)
                 ELSE tokens
    /\ UNCHANGED <<users, nextUserId, pending, now>>
    /\ UNCHANGED <<categories, tasks, nextCategoryId, nextTaskId>>
    /\ Elsewhere

(* The recovery specification: two registered identities, reset and
   verification tokens requested up to MaxIssueTick and used up to a second
   past the end of their lives, while the identities change their email or
   delete their account *)

MaxHeldTokens == 1

RecoverEmails == {"a@x.io", "c@x.io"}

RecoverInstants ==
    {0, 1}
    \cup UNION { {TokenTTL(k), TokenTTL(k) + 1, TokenTTL(k) + Seconds(1)} :
                 k \in {RESET_TOKEN_TYPE, VERIFICATION_TOKEN_TYPE} }

PasswordResets == [token : PresentedTokens, new_password : Passwords]

EmailUpdates == { "email" :> e : e \in RecoverEmails }

RecoverCreates ==
    [email : {"c@x.io"}, username : {"carol"}, password : {"pw1"}, full_name : {Null}]

InitRecover ==
    /\ users = {Alice, Bob}
    /\ categories = {}
    /\ tasks = {}
    /\ nextUserId = 3
    /\ nextCategoryId = 1
    /\ nextTaskId = 1
    /\ pending = {}
    /\ InitElsewhere
    /\ now = 0
    /\ tokens = {}
    /\ last = NoRequest

NextRecover ==
    \/ \E email \in RecoverEmails :
          /\ Cardinality(tokens) < MaxHeldTokens
          /\ now <= MaxIssueTick
          /\ RequestPasswordReset(email)
    \/ \E email \in RecoverEmails :
          /\ Cardinality(tokens) < MaxHeldTokens
          /\ now <= MaxIssueTick
          /\ ResendVerification(email)
    \/ \E reset_data \in PasswordResets : ResetPassword(reset_data)
    \/ \E token \in PresentedTokens : VerifyEmail(token)
    \/ \E u \in CurrentActiveUsers, d \in EmailUpdates : UpdateMyProfile(u, d)
    \/ \E u \in CurrentActiveUsers : DeleteMyAccount(u)
    \/ \E user_in \in RecoverCreates :
          nextUserId <= MaxUserId + 1 /\ Register(user_in)
    \/ \E t \in RecoverInstants : Tick(t)

SpecRecover == InitRecover /\ [][NextRecover]_vars

-----------------------------------------------------------------------------
(* The access gate and the token refresh *)

(* A request without an Authorization header *)
NoAuthorization == [type |-> "missing"]

(* uuid.UUID(s): the id a string spells, NoId where it raises ValueError *)
uuid_UUID(s) ==
    IF \E i \in 1..nextUserId : ToString(i) = s
    THEN CHOOSE i \in 1..nextUserId : ToString(i) = s
    ELSE NoId

(* BaseRepository.get for users *)
user_repository_get(id) == { u \in users : u.id = id }

HTTPException(status_code, detail) == [status |-> status_code, detail |-> detail]

credentials_exception == HTTPException(401, "Could not validate credentials")

(* OAuth2PasswordBearer(tokenUrl=...): auto_error is left True, so a request
   without a bearer token is refused before the dependency's body runs *)
oauth2_scheme(authorization) ==
    IF authorization = NoAuthorization
    THEN [error |-> HTTPException(401, "Not authenticated"), token |-> NoAuthorization]
    ELSE [error |-> NoError, token |-> authorization]

get_current_user_any_type(authorization) ==
    LET bearer == oauth2_scheme(authorization)
        payload == decode_token(bearer.token, Null)
        found == user_repository_get(uuid_UUID(payload.sub))
    IN  IF bearer.error # NoError
        THEN [error |-> bearer.error, user |-> NoRow]
        ELSE IF payload = NoPayload
        THEN [error |-> credentials_exception, user |-> NoRow]
        ELSE IF found = {}
        THEN [error |-> credentials_exception, user |-> NoRow]
        ELSE [error |-> NoError, user |-> CHOOSE u \in found : TRUE]

get_current_user(authorization) ==
    LET bearer == oauth2_scheme(authorization)
        user_id_str == verify_token(bearer.token, ACCESS_TOKEN_TYPE)
        user_id == uuid_UUID(user_id_str)
        found == user_repository_get(user_id)
    IN  IF bearer.error # NoError
        THEN [error |-> bearer.error, user |-> NoRow]
        ELSE IF user_id_str = Null
        THEN [error |-> credentials_exception, user |-> NoRow]
        ELSE IF user_id = NoId
        THEN [error |-> credentials_exception, user |-> NoRow]
        ELSE IF found = {}
        THEN [error |-> credentials_exception, user |-> NoRow]
        ELSE [error |-> NoError, user |-> CHOOSE u \in found : TRUE]

get_current_active_user(authorization) ==
    LET current == get_current_user(authorization)
    IN  IF current.error # NoError
        THEN current
        ELSE IF ~current.user.is_active
        THEN [error |-> HTTPException(403, "Inactive user"), user |-> NoRow]
        ELSE current

get_current_verified_user(authorization) ==
    LET current == get_current_active_user(authorization)
    IN  IF current.error # NoError
        THEN current
        ELSE IF ~current.user.is_verified
        THEN [error |-> HTTPException(403,
                "Email not verified. Please verify your email to access this resource."),
              user |-> NoRow]
        ELSE current

(* get_current_user_optional: it depends on the same oauth2_scheme *)
get_current_user_optional(authorization) ==
    LET bearer == oauth2_scheme(authorization)
        user_id_str == verify_token(bearer.token, ACCESS_TOKEN_TYPE)
        user_id == uuid_UUID(user_id_str)
        found == user_repository_get(user_id)
    IN  IF bearer.error # NoError
        THEN [error |-> bearer.error, user |-> NoRow]
        ELSE IF user_id_str = Null
        THEN [error |-> NoError, user |-> NoRow]
        ELSE IF user_id = NoId
        THEN [error |-> NoError, user |-> NoRow]
        ELSE IF found = {}
        THEN [error |-> NoError, user |-> NoRow]
        ELSE [error |-> NoError, user |-> CHOOSE u \in found : TRUE]

refresh_token_any_type(refresh_token) ==
    LET payload == decode_token(refresh_token, Null)
        found == user_repository_get(uuid_UUID(payload.sub))
        user == CHOOSE u \in found : TRUE
    IN  IF payload = NoPayload
        THEN [error |-> InvalidTokenError("Invalid refresh token"), body |-> NoRow]
        ELSE IF found = {}
        THEN [error |-> NotFoundError("User not found"), body |-> NoRow]
        ELSE IF ~user.is_active
        THEN [error |-> InactiveUserError, body |-> NoRow]
        ELSE [error |-> NoError,
              body |-> [access_token |-> create_access_token([sub |-> ToString(user.id)]),
                        token_type |-> "bearer"]]

(* AuthService.refresh_token *)
auth_service_refresh_token(refresh_token) ==
    LET user_id_str == verify_token(refresh_token, REFRESH_TOKEN_TYPE)
        found == user_repository_get(uuid_UUID(user_id_str))
        user == CHOOSE u \in found : TRUE
    IN  IF user_id_str = Null
        THEN [error |-> InvalidTokenError("Invalid refresh token"), body |-> NoRow]
        ELSE IF found = {}
        THEN [error |-> NotFoundError("User not found"), body |-> NoRow]
        ELSE IF ~user.is_active
        THEN [error |-> InactiveUserError, body |-> NoRow]
        ELSE [error |-> NoError,
              body |-> [access_token |-> create_access_token([sub |-> ToString(user.id)]),
                        token_type |-> "bearer"]]

(* POST /auth/refresh: InvalidTokenError, NotFoundError and InactiveUserError
   all leave as 401 *)
refresh_token(token) ==
    LET op == "refresh_token"
        arg == [refresh_token |-> token]
        r == auth_service_refresh_token(token)
    IN  IF r.error # NoError
        THEN Raise(op, NoId, NoId, arg, HTTPException(401, r.error.detail))
        ELSE Ok(op, NoId, NoId, arg, 200, r.body)

RefreshToken(token) ==
    /\ last' = refresh_token(token)
    /\ UNCHANGED <<users, nextUserId, pending>>
    /\ ResourcesUnchanged

(* A dependency resolved for a request: last keeps the Authorization header,
   the identity it resolved to and the error it raised *)
Resolve(op, authorization, current) ==
    /\ last' = IF current.error # NoError
               THEN Raise(op, NoId, NoId, [authorization |-> authorization],
                          current.error)
               ELSE Ok(op, current.user.id, NoId, [authorization |-> authorization],
                       200, current.user)
    /\ UNCHANGED <<users, nextUserId, pending>>
    /\ ResourcesUnchanged

GetCurrentUser(authorization) ==
    Resolve("get_current_user", authorization, get_current_user(authorization))

GetCurrentVerifiedUser(authorization) ==
    Resolve("get_current_verified_user", authorization,
            get_current_verified_user(authorization))

GetCurrentUserOptional(authorization) ==
    Resolve("get_current_user_optional", authorization,
            get_current_user_optional(authorization))

(* GET /auth/me *)
GetCurrentUserInfo(authorization) ==
    LET current == get_current_active_user(authorization) IN
    /\ last' = IF current.error # NoError
               THEN Raise("get_current_user_info", NoId, NoId,
                          [authorization |-> authorization], current.error)
               ELSE Ok("get_current_user_info", current.user.id, NoId,
                       [authorization |-> authorization], 200,
                       UserResponse(current.user))
    /\ UNCHANGED <<users, nextUserId, pending>>
    /\ ResourcesUnchanged

(* DELETE /users/me with its dependency *)
DeleteMyAccountWithToken(authorization) ==
    LET current == get_current_active_user(authorization)
        r == delete_my_account(current.user)
    IN  IF current.error # NoError
        THEN /\ last' = Raise("delete_my_account", NoId, NoId,
                              [authorization |-> authorization], current.error)
             /\ UNCHANGED <<users, nextUserId, pending>>
             /\ ResourcesUnchanged
        ELSE /\ users' = r.users
             /\ categories' = r.categories
             /\ tasks' = r.tasks
             /\ last' = [r.response EXCEPT !.arg = [authorization |-> authorization]]
             /\ UNCHANGED <<nextUserId, nextCategoryId, nextTaskId, pending, now,
                            tokens>>
             /\ Elsewhere

(* The gate specification: an unverified, a verified and a deactivated
   identity; access and refresh tokens created for them up to MaxIssueTick are
   presented up to a second past the end of their lives, rightly signed or
   not, while accounts are deleted *)

MaxGateTokens == 2

Carol ==
    [id |-> 3, email |-> "c@x.io", username |-> "carol", full_name |-> Null,
     hashed_password |-> <<"bcrypt", "pw1">>, is_active |-> FALSE,
     is_verified |-> FALSE]

GateSubjects == { ToString(u.id) : u \in {Alice, Bob, Carol} }

GateInstants ==
    {0, 1}
    \cup UNION { {TokenTTL(k), TokenTTL(k) + 1, TokenTTL(k) + Seconds(1)} :
                 k \in {ACCESS_TOKEN_TYPE, REFRESH_TOKEN_TYPE} }

Authorizations == {NoAuthorization} \cup PresentedTokens

InitGate ==
    /\ users = {Alice, [Bob EXCEPT !.is_verified = TRUE], Carol}
    /\ categories = {}
    /\ tasks = {}
    /\ nextUserId = 4
    /\ nextCategoryId = 1
    /\ nextTaskId = 1
    /\ pending = {}
    /\ InitElsewhere
    /\ now = 0
    /\ tokens = {}
    /\ last = NoRequest

NextGate ==
    \/ \E sub \in GateSubjects :
          /\ Cardinality(tokens) < MaxGateTokens
          /\ now <= MaxIssueTick
          /\ CreateAccessToken(sub)
    \/ \E sub \in GateSubjects :
          /\ Cardinality(tokens) < MaxGateTokens
          /\ now <= MaxIssueTick
          /\ CreateRefreshToken(sub)
    \/ \E username \in {"alice", "b@x.io", "carol"}, password \in Passwords :
          Login(username, password)
    \/ \E token \in PresentedTokens : RefreshToken(token)
    \/ \E a \in Authorizations : GetCurrentUser(a)
    \/ \E a \in Authorizations : GetCurrentVerifiedUser(a)
    \/ \E a \in Authorizations : GetCurrentUserOptional(a)
    \/ \E a \in Authorizations : GetCurrentUserInfo(a)
    \/ \E a \in Authorizations : DeleteMyAccountWithToken(a)
    \/ \E t \in GateInstants : Tick(t)

SpecGate == InitGate /\ [][NextGate]_vars

-----------------------------------------------------------------------------
(* The metrics aggregator (core/monitoring.py).  Its three methods run on any
   thread; each takes self.lock for its whole body.  A call in flight is a
   record of pending whose pc tells the statement it runs next. *)

(* The durations kept per endpoint: 1000 in the code, scaled down here *)
MaxKeptDurations == 2
(* The recordings followed per endpoint between two resets *)
MaxRecorded == 3

Threads == {1, 2}
(* The requests recorded: a fast one that succeeded and a slow one that failed *)
RecordedRequests ==
    { [duration |-> 1, status_code |-> 200], [duration |-> 2, status_code |-> 500] }

Idle(t) == \A p \in pending : p.slot # t

(* with self.lock: the lock is taken only when no thread holds it *)
lock_acquire(m, t) == [m EXCEPT !.lock = {t}]
lock_never_locked(m) == FALSE

lock_locked(m) == m.lock # {}
lock_release(m, t) == [m EXCEPT !.lock = @ \ {t}]

(* self.metrics[endpoint].append(duration) *)
record_request_append(m, endpoint, duration) ==
    [m EXCEPT !.metrics[endpoint] = Append(@, duration)]

(* if status_code >= 400: self.errors[endpoint] += 1 *)
record_request_errors(m, endpoint, status_code) ==
    IF status_code >= 400 THEN [m EXCEPT !.errors[endpoint] = @ + 1] ELSE m

record_request_trim_keeps_oldest(durations) ==
    IF Len(durations) > MaxKeptDurations
    THEN SubSeq(durations, 1, MaxKeptDurations)
    ELSE durations

(* if len(...) > 1000: self.metrics[endpoint] = self.metrics[endpoint][-1000:] *)
record_request_trim(durations) ==
    IF Len(durations) > MaxKeptDurations
    THEN SubSeq(durations, Len(durations) - MaxKeptDurations + 1, Len(durations))
    ELSE durations

RECURSIVE sum(_)
sum(durations) ==
    IF durations = <<>> THEN 0 ELSE Head(durations) + sum(Tail(durations))

min(durations) ==
    CHOOSE d \in { durations[i] : i \in 1..Len(durations) } :
        \A i \in 1..Len(durations) : d <= durations[i]

max(durations) ==
    CHOOSE d \in { durations[i] : i \in 1..Len(durations) } :
        \A i \in 1..Len(durations) : d >= durations[i]

(* The statistics of one endpoint; avg_time is the quotient sum / len, kept as
   its two terms *)
EndpointStats(m, endpoint) ==
    [endpoint |-> endpoint,
     requests |-> Len(m.metrics[endpoint]),
     avg_time |-> [sum |-> sum(m.metrics[endpoint]),
                   len |-> Len(m.metrics[endpoint])],
     min_time |-> min(m.metrics[endpoint]),
     max_time |-> max(m.metrics[endpoint]),
     errors |-> m.errors[endpoint]]

(* PerformanceMonitor.get_stats: of one endpoint, or of all of them when
   endpoint is None.  The listing of all endpoints is kept as a set: its order
   by avg_time and its cut to ten entries are not followed. *)
get_stats(m, endpoint) ==
    IF endpoint # Null
    THEN IF m.metrics[endpoint] = <<>>
         THEN [endpoint |-> endpoint, requests |-> 0]
         ELSE EndpointStats(m, endpoint)
    ELSE [uptime_ticks |-> now - m.start_time,
          total_requests |-> sum([i \in 1..2 |->
                                   Len(m.metrics[IF i = 1 THEN "/health"
                                                 ELSE "/metrics"])]),
          total_errors |-> sum([i \in 1..2 |->
                                 m.errors[IF i = 1 THEN "/health" ELSE "/metrics"]]),
          endpoints |-> { EndpointStats(m, e) :
                          e \in { k \in Endpoints : m.metrics[k] # <<>> } }]

MonitorFrame ==
    UNCHANGED <<users, categories, tasks, nextUserId, nextCategoryId, nextTaskId,
                now, tokens, sessions>>

Call(t, op, pc, endpoint, duration, status_code) ==
    [slot |-> t, op |-> op, pc |-> pc, endpoint |-> endpoint,
     duration |-> duration, status_code |-> status_code]

(* record_request, line 43-44: the lock is taken and the duration appended *)
RecordRequestAppend(t, endpoint, duration, status_code) ==
    /\ Idle(t)
    /\ ~lock_locked(performance_monitor)
    /\ performance_monitor' =
           record_request_append(lock_acquire(performance_monitor, t),
                                 endpoint, duration)
    /\ recorded' = [recorded EXCEPT ![endpoint] = Append(@, duration)]
    /\ pending' = pending \cup
                    {Call(t, "record_request", "errors", endpoint, duration,
                          status_code)}
    /\ UNCHANGED last
    /\ MonitorFrame

(* record_request, line 47-48 *)
RecordRequestErrors(p) ==
    /\ p.op = "record_request" /\ p.pc = "errors"
    /\ performance_monitor' =
           record_request_errors(performance_monitor, p.endpoint, p.status_code)
    /\ pending' = (pending \ {p}) \cup {[p EXCEPT !.pc = "trim"]}
    /\ UNCHANGED <<recorded, last>>
    /\ MonitorFrame

(* record_request, line 51-52, and the lock is given back *)
RecordRequestTrim(p) ==
    /\ p.op = "record_request" /\ p.pc = "trim"
    /\ performance_monitor' =
           lock_release([performance_monitor EXCEPT
                            !.metrics[p.endpoint] = record_request_trim(@)],
                        p.slot)
    /\ pending' = pending \ {p}
    /\ UNCHANGED <<recorded, last>>
    /\ MonitorFrame

(* get_stats: the whole method under the lock *)
GetStats(t, endpoint) ==
    /\ Idle(t)
    /\ ~lock_locked(performance_monitor)
    /\ last' = Ok("get_stats", NoId, NoId, [endpoint |-> endpoint], 200,
                  get_stats(performance_monitor, endpoint))
    /\ UNCHANGED <<performance_monitor, recorded, pending>>
    /\ MonitorFrame

(* reset, line 104-105: the lock is taken and the durations cleared *)
ResetMetrics(t) ==
    /\ Idle(t)
    /\ ~lock_locked(performance_monitor)
    /\ performance_monitor' =
           [lock_acquire(performance_monitor, t) EXCEPT
               !.metrics = [e \in Endpoints |-> <<>>]]
    /\ recorded' = NoneRecorded
    /\ pending' = pending \cup {Call(t, "reset", "errors", Null, 0, 0)}
    /\ UNCHANGED last
    /\ MonitorFrame

(* reset, line 106 *)
ResetErrors(p) ==
    /\ p.op = "reset" /\ p.pc = "errors"
    /\ performance_monitor' =
           [performance_monitor EXCEPT !.errors = [e \in Endpoints |-> 0]]
    /\ pending' = (pending \ {p}) \cup {[p EXCEPT !.pc = "start_time"]}
    /\ UNCHANGED <<recorded, last>>
    /\ MonitorFrame

(* reset, line 107, and the lock is given back *)
ResetStartTime(p) ==
    /\ p.op = "reset" /\ p.pc = "start_time"
    /\ performance_monitor' =
           lock_release([performance_monitor EXCEPT !.start_time = now], p.slot)
    /\ pending' = pending \ {p}
    /\ UNCHANGED <<recorded, last>>
    /\ MonitorFrame

(* The monitor specification: two threads record, read and reset *)
InitMonitor ==
    /\ users = {}
    /\ categories = {}
    /\ tasks = {}
    /\ nextUserId = 1
    /\ nextCategoryId = 1
    /\ nextTaskId = 1
    /\ pending = {}
    /\ now = 0
    /\ tokens = {}
    /\ last = NoRequest
    /\ performance_monitor = PerformanceMonitor
    /\ recorded = NoneRecorded
    /\ sessions = {}

NextMonitor ==
    \/ \E t \in Threads, e \in Endpoints, r \in RecordedRequests :
          /\ Len(recorded[e]) < MaxRecorded
          /\ RecordRequestAppend(t, e, r.duration, r.status_code)
    \/ \E p \in pending : RecordRequestErrors(p)
    \/ \E p \in pending : RecordRequestTrim(p)
    \/ \E t \in Threads, e \in Endpoints \cup {Null} : GetStats(t, e)
    \/ \E t \in Threads : ResetMetrics(t)
    \/ \E p \in pending : ResetErrors(p)
    \/ \E p \in pending : ResetStartTime(p)

SpecMonitor == InitMonitor /\ [][NextMonitor]_vars

-----------------------------------------------------------------------------
(* The account specification: the two identities fill their stores, delete
   their accounts, and the emails and usernames are registered again *)

MaxAccountUserId == 4

AccountCreates ==
    { [email |-> u.email, username |-> u.username, password |-> "pw2",
       full_name |-> Null] : u \in {Alice, Bob} }

NextAccount ==
    \/ \E u \in CurrentActiveUsers, c \in StoreCategoryCreates :
          nextCategoryId <= MaxStoreCategoryId + 1 /\ CreateCategory(u, c)
    \/ \E u \in CurrentActiveUsers, t \in TaskCreates :
          nextTaskId <= MaxStoreTaskId /\ CreateTask(u, t)
    \/ \E u \in CurrentActiveUsers : DeleteMyAccount(u)
    \/ \E user_in \in AccountCreates :
          nextUserId <= MaxAccountUserId /\ Register(user_in)

SpecAccount == InitStore /\ [][NextAccount]_vars

-----------------------------------------------------------------------------
(* The session of a request (api/deps.py get_db).  A route names get_db once,
   and a second time through get_current_user when it is protected; the
   dependencies of one request are solved with a cache, so the second use
   finds the generator of the first.  A request in flight is a record of
   pending: pc is its position in get_db, raised the exception it is leaving
   with.  Rows added to a session stay in its field new until a commit. *)

MaxSessionTaskId == 2

(* Two requests, each served once *)
RequestIds == {1, 2}

(* The number of Depends(get_db) a route carries: /auth/register has one,
   /tasks has the route's and get_current_user's *)
Routes == { [path |-> "/auth/register", depends |-> 1],
            [path |-> "/tasks", depends |-> 2] }

NoException == "none"
HandledError == "HTTPException"
UnhandledFault == "Exception"

SessionsOf(r) == { s \in sessions : s.request = r }
SessionOf(p) == CHOOSE s \in sessions : s.request = p.slot

(* AsyncSessionLocal(): a new session for the request *)
AsyncSessionLocal(r) ==
    [id |-> Cardinality(sessions) + 1, request |-> r, state |-> "open", new |-> {}]

get_db_uncached(r) == sessions \cup {AsyncSessionLocal(r)}

(* Depends(get_db) with use_cache: the generator is entered on the first use
   in a request and found again afterwards *)
get_db(r) ==
    IF SessionsOf(r) # {} THEN sessions ELSE sessions \cup {AsyncSessionLocal(r)}

session_commit_nothing(s) ==
    [session |-> [s EXCEPT !.new = {}], tasks |-> tasks]

(* session.commit(): the rows added since the last commit become durable *)
session_commit(s) ==
    [session |-> [s EXCEPT !.new = {}], tasks |-> tasks \cup s.new]

(* session.rollback(): they are discarded *)
session_rollback(s) == [s EXCEPT !.new = {}]

(* session.close(): the connection goes back to the pool, and what was not
   committed is discarded with it *)
session_close(s) == [s EXCEPT !.state = "closed", !.new = {}]

SessionFrame ==
    UNCHANGED <<users, categories, nextUserId, nextCategoryId, now, tokens,
                performance_monitor, recorded>>

Moved(p, pc, raised) ==
    (pending \ {p}) \cup {[p EXCEPT !.pc = pc, !.raised = raised]}

Replaced(s, t) == (sessions \ {s}) \cup {t}

(* A request arrives *)
Receive(r, route) ==
    /\ \A p \in pending : p.slot # r
    /\ SessionsOf(r) = {}
    /\ pending' = pending \cup {[slot |-> r, op |-> route.path, pc |-> "depends",
                                 unresolved |-> route.depends,
                                 raised |-> NoException]}
    /\ UNCHANGED <<sessions, tasks, nextTaskId, last>>
    /\ SessionFrame

(* One Depends(get_db) of the request is solved: async with
   AsyncSessionLocal() as session: try: yield session *)
SolveGetDb(p) ==
    /\ p.pc = "depends" /\ p.unresolved > 0
    /\ sessions' = get_db(p.slot)
    /\ pending' = (pending \ {p}) \cup
                    {[p EXCEPT !.unresolved = @ - 1,
                               !.pc = IF p.unresolved = 1 THEN "handler"
                                      ELSE "depends"]}
    /\ UNCHANGED <<tasks, nextTaskId, last>>
    /\ SessionFrame

(* get_current_user raises its 401 after the session was handed out *)
DependencyRaises(p) ==
    /\ p.pc = "depends" /\ p.unresolved > 0 /\ SessionsOf(p.slot) # {}
    /\ pending' = Moved(p, "rollback", HandledError)
    /\ UNCHANGED <<sessions, tasks, nextTaskId, last>>
    /\ SessionFrame

(* The handler adds a row: db.add and flush, as BaseRepository.create does *)
HandlerWrites(p) ==
    /\ p.pc = "handler"
    /\ sessions' = Replaced(SessionOf(p),
                            [SessionOf(p) EXCEPT !.new = @ \cup
                                {TaskRow(nextTaskId, 1, <<"t">>, NullText, TODO,
                                         MEDIUM, NoDue, NoId, now)}])
    /\ nextTaskId' = nextTaskId + 1
    /\ UNCHANGED <<pending, tasks, last>>
    /\ SessionFrame

(* The handler's own await db.commit() *)
HandlerCommits(p) ==
    /\ p.pc = "handler"
    /\ SessionOf(p).new # {}
    /\ sessions' = Replaced(SessionOf(p), session_commit(SessionOf(p)).session)
    /\ tasks' = session_commit(SessionOf(p)).tasks
    /\ UNCHANGED <<pending, nextTaskId, last>>
    /\ SessionFrame

(* The handler returns: get_db goes on after its yield *)
HandlerReturns(p) ==
    /\ p.pc = "handler"
    /\ pending' = Moved(p, "commit", NoException)
    /\ UNCHANGED <<sessions, tasks, nextTaskId, last>>
    /\ SessionFrame

(* The handler raises, an HTTPException or AppException that an exception
   handler answers, or any other Exception: get_db goes on in its except *)
HandlerRaises(p, exc) ==
    /\ p.pc = "handler"
    /\ pending' = Moved(p, "rollback", exc)
    /\ UNCHANGED <<sessions, tasks, nextTaskId, last>>
    /\ SessionFrame

(* await session.commit() of get_db; when it raises, the except branch is next *)
GetDbCommit(p, raises) ==
    /\ p.pc = "commit"
    /\ IF raises
       THEN /\ pending' = Moved(p, "rollback", UnhandledFault)
            /\ UNCHANGED <<sessions, tasks>>
       ELSE /\ pending' = Moved(p, "close", NoException)
            /\ sessions' = Replaced(SessionOf(p), session_commit(SessionOf(p)).session)
            /\ tasks' = session_commit(SessionOf(p)).tasks
    /\ UNCHANGED <<nextTaskId, last>>
    /\ SessionFrame

(* except Exception: await session.rollback(); raise *)
GetDbRollback(p) ==
    /\ p.pc = "rollback"
    /\ sessions' = Replaced(SessionOf(p), session_rollback(SessionOf(p)))
    /\ pending' = Moved(p, "close", p.raised)
    /\ UNCHANGED <<tasks, nextTaskId, last>>
    /\ SessionFrame

(* finally: await session.close(); the response leaves *)
GetDbClose(p) ==
    /\ p.pc = "close"
    /\ sessions' = Replaced(SessionOf(p), session_close(SessionOf(p)))
    /\ pending' = pending \ {p}
    /\ last' = IF p.raised = NoException
               THEN Ok(p.op, NoId, p.slot, NoRow, 200, NoRow)
               ELSE IF p.raised = HandledError
               THEN Raise(p.op, NoId, p.slot, NoRow, BadRequest([detail |-> p.raised]))
               ELSE Raise(p.op, NoId, p.slot, NoRow, DatabaseError)
    /\ UNCHANGED <<tasks, nextTaskId>>
    /\ SessionFrame

(* The steps of one request after it arrived *)
RequestStep(r) ==
    \E p \in pending :
        /\ p.slot = r
        /\ \/ SolveGetDb(p)
           \/ DependencyRaises(p)
           \/ nextTaskId <= MaxSessionTaskId /\ HandlerWrites(p)
           \/ HandlerCommits(p)
           \/ HandlerReturns(p)
           \/ \E exc \in {HandledError, UnhandledFault} : HandlerRaises(p, exc)
           \/ \E raises \in BOOLEAN : GetDbCommit(p, raises)
           \/ GetDbRollback(p)
           \/ GetDbClose(p)

InitSession ==
    /\ users = {Alice}
    /\ categories = {}
    /\ tasks = {}
    /\ nextUserId = 2
    /\ nextCategoryId = 1
    /\ nextTaskId = 1
    /\ pending = {}
    /\ now = 0
    /\ tokens = {}
    /\ last = NoRequest
    /\ performance_monitor = PerformanceMonitor
    /\ recorded = NoneRecorded
    /\ sessions = {}

NextSession ==
    \/ \E r \in RequestIds, route \in Routes : Receive(r, route)
    \/ \E p \in pending : SolveGetDb(p)
    \/ \E p \in pending : DependencyRaises(p)
    \/ \E p \in pending : nextTaskId <= MaxSessionTaskId /\ HandlerWrites(p)
    \/ \E p \in pending : HandlerCommits(p)
    \/ \E p \in pending : HandlerReturns(p)
    \/ \E p \in pending, exc \in {HandledError, UnhandledFault} : HandlerRaises(p, exc)
    \/ \E p \in pending, raises \in BOOLEAN : GetDbCommit(p, raises)
    \/ \E p \in pending : GetDbRollback(p)
    \/ \E p \in pending : GetDbClose(p)

SpecSession == InitSession /\ [][NextSession]_vars

(* The event loop runs every coroutine it has started: a request that can take
   a step takes one *)
SpecSessionFair ==
    SpecSession /\ \A r \in RequestIds : WF_vars(RequestStep(r))

-----------------------------------------------------------------------------
(* The reissue specification: the recovery requests at one instant, each token
   handed out remembering, as history, the identities that held its email
   then, while the identities change their emails, are deleted and register *)

ReceivedBy(token) ==
    tokens \cup {[token |-> token, issued |-> now,
                  to |-> { u.id : u \in get_by_email(token.sub) }]}

RequestPasswordResetBy(email) ==
    /\ last' = request_password_reset(email)
    /\ tokens' = ReceivedBy(last'.body.reset_token)
    /\ UNCHANGED <<users, nextUserId, pending, now>>
    /\ UNCHANGED <<categories, tasks, nextCategoryId, nextTaskId>>
    /\ Elsewhere

ResendVerificationBy(email) ==
    /\ last' = resend_verification(email)
    /\ tokens' = IF last'.status = 200
                 THEN ReceivedBy(last'.body.verification_token)
                 ELSE tokens
    /\ UNCHANGED <<users, nextUserId, pending, now>>
    /\ UNCHANGED <<categories, tasks, nextCategoryId, nextTaskId>>
    /\ Elsewhere

NextReissue ==
    \/ \E email \in RecoverEmails :
          Cardinality(tokens) < MaxHeldTokens /\ RequestPasswordResetBy(email)
    \/ \E email \in RecoverEmails :
          Cardinality(tokens) < MaxHeldTokens /\ ResendVerificationBy(email)
    \/ \E reset_data \in PasswordResets : ResetPassword(reset_data)
    \/ \E token \in PresentedTokens : VerifyEmail(token)
    \/ \E u \in CurrentActiveUsers, d \in EmailUpdates : UpdateMyProfile(u, d)
    \/ \E u \in CurrentActiveUsers : DeleteMyAccount(u)
    \/ \E user_in \in RecoverCreates :
          nextUserId <= MaxUserId + 1 /\ Register(user_in)

SpecReissue == InitRecover /\ [][NextReissue]_vars

-----------------------------------------------------------------------------
(* PUT /users/me/password *)

update_my_password_writes_first(current_user, password_update) ==
    LET op == "update_my_password"
        updated == RepoUpdate(current_user,
                              "hashed_password" :>
                                  get_password_hash(password_update.new_password))
    IN  IF ~verify_password(password_update.current_password,
                            current_user.hashed_password)
        THEN IdentityResult(Raise(op, current_user.id, NoId, password_update,
                                  HTTPException(400, "Incorrect current password")),
                            (users \ {current_user}) \cup {updated})
        ELSE IdentityResult(Ok(op, current_user.id, NoId, password_update, 200,
                               [message |-> "Password updated successfully"]),
                            (users \ {current_user}) \cup {updated})

update_my_password(current_user, password_update) ==
    LET op == "update_my_password"
        updated == RepoUpdate(current_user,
                              "hashed_password" :>
                                  get_password_hash(password_update.new_password))
    IN  IF ~verify_password(password_update.current_password,
                            current_user.hashed_password)
        THEN IdentityResult(Raise(op, current_user.id, NoId, password_update,
                                  HTTPException(400, "Incorrect current password")),
                            users)
        ELSE IdentityResult(Ok(op, current_user.id, NoId, password_update, 200,
                               [message |-> "Password updated successfully"]),
                            (users \ {current_user}) \cup {updated})

UpdateMyPassword(u, password_update) ==
    LET r == update_my_password(u, password_update) IN
    /\ users' = r.users
    /\ last' = r.response
    /\ UNCHANGED <<nextUserId, pending>>
    /\ ResourcesUnchanged

(* The refusal specification: one identity and the one that registers next to
   it, one reset token in flight, send the requests that check before they
   write, with bodies that are refused and bodies that are accepted *)

MaxRefusalCategoryId == 2
MaxRefusalTaskId == 1

PasswordUpdates == [current_password : Passwords, new_password : {"pw2"}]

RefusalEmailUpdates == { "email" :> e : e \in {"a@x.io", "c@x.io"} }

RefusalResets == [token : PresentedTokens, new_password : {"pw2"}]

RefusalTaskCreates ==
    [title : {<<"t">>}, description : {NullText}, status : {TODO}, priority : {MEDIUM},
     due_date : {NoDue}, category_id : {1}]

RefusalTaskUpdates == { "category_id" :> c : c \in {1, 2} }

RefusalCreates ==
    [email : {"a@x.io", "c@x.io"}, username : {"carol"}, password : {"pw1"},
     full_name : {Null}]

InitRefusal ==
    /\ users = {Alice}
    /\ categories = {}
    /\ tasks = {}
    /\ nextUserId = 2
    /\ nextCategoryId = 1
    /\ nextTaskId = 1
    /\ pending = {}
    /\ InitElsewhere
    /\ now = 0
    /\ tokens = { [token |-> create_reset_token("a@x.io"), issued |-> 0] }
    /\ last = NoRequest

NextRefusal ==
    \/ \E u \in CurrentActiveUsers, c \in CategoryCreates :
          nextCategoryId <= MaxRefusalCategoryId /\ CreateCategory(u, c)
    \/ \E u \in CurrentActiveUsers, id \in 1..MaxRefusalCategoryId :
          UpdateCategory(u, id, "name" :> "Work")
    \/ \E u \in CurrentActiveUsers, id \in 1..MaxRefusalCategoryId :
          DeleteCategory(u, id)
    \/ \E u \in CurrentActiveUsers, t \in RefusalTaskCreates :
          nextTaskId <= MaxRefusalTaskId /\ CreateTask(u, t)
    \/ \E u \in CurrentActiveUsers, id \in 1..MaxRefusalTaskId,
          d \in RefusalTaskUpdates : UpdateTask(u, id, d)
    \/ \E user_in \in RefusalCreates : Register(user_in)
    \/ \E password \in Passwords : Login("alice", password)
    \/ \E u \in CurrentActiveUsers, d \in RefusalEmailUpdates : UpdateMyProfile(u, d)
    \/ \E u \in CurrentActiveUsers, d \in PasswordUpdates : UpdateMyPassword(u, d)
    \/ \E reset_data \in RefusalResets : ResetPassword(reset_data)

SpecRefusal == InitRefusal /\ [][NextRefusal]_vars

-----------------------------------------------------------------------------
(* The activity specification: every identity comes from register, and every
   request that writes an identity or asks whether one is active is sent *)

ActiveSubjects == {"1", "2"}

NextActive ==
    \/ \E user_in \in UserCreates : nextUserId <= MaxUserId /\ Register(user_in)
    \/ \E username \in Emails \cup Usernames, password \in Passwords :
          Login(username, password)
    \/ \E u \in CurrentActiveUsers, d \in UserUpdates : UpdateMyProfile(u, d)
    \/ \E u \in CurrentActiveUsers, d \in PasswordUpdates : UpdateMyPassword(u, d)
    \/ \E u \in CurrentActiveUsers : DeleteMyAccount(u)
    \/ \E sub \in ActiveSubjects :
          Cardinality(tokens) < MaxHeldTokens /\ CreateAccessToken(sub)
    \/ \E sub \in ActiveSubjects :
          Cardinality(tokens) < MaxHeldTokens /\ CreateRefreshToken(sub)
    \/ \E email \in Emails :
          Cardinality(tokens) < MaxHeldTokens /\ RequestPasswordReset(email)
    \/ \E email \in Emails :
          Cardinality(tokens) < MaxHeldTokens /\ ResendVerification(email)
    \/ \E reset_data \in RefusalResets : ResetPassword(reset_data)
    \/ \E token \in PresentedTokens : VerifyEmail(token)
    \/ \E token \in PresentedTokens : RefreshToken(token)
    \/ \E a \in Authorizations : GetCurrentUserInfo(a)

SpecActive == InitAuth /\ [][NextActive]_vars

-----------------------------------------------------------------------------
(* Task statistics query by query.  The engine sets no isolation level, so
   every statement of the request reads what is committed when it runs, and
   the requests of other sessions commit between the six queries. *)

MaxStatisticsTaskId == 2

(* The queries of TaskService.get_task_statistics in the order they are awaited *)
StatisticsQueries ==
    <<"total", "todo", "in_progress", "completed", "archived", "overdue">>

StatisticsStatus(query) ==
    IF query = "todo" THEN TODO
    ELSE IF query = "in_progress" THEN IN_PROGRESS
    ELSE IF query = "completed" THEN COMPLETED
    ELSE IF query = "archived" THEN ARCHIVED
    ELSE Null

StatisticsFrame ==
    /\ UNCHANGED <<users, categories, tasks, nextUserId, nextCategoryId, nextTaskId,
                   now, tokens>>
    /\ Elsewhere

(* total = await task_repository.count_user_tasks(db, user_id) *)
GetTaskStatisticsTotal(u) ==
    /\ pending' = pending \cup
                    {[slot |-> FreeSlot, op |-> "get_task_statistics",
                      user |-> u.id, query |-> 2,
                      counts |-> [q \in {"total"} |-> count_user_tasks(u.id, Null)]]}
    /\ UNCHANGED last
    /\ StatisticsFrame

(* One of the four counts by status *)
GetTaskStatisticsCount(p) ==
    LET q == StatisticsQueries[p.query] IN
    /\ p.op = "get_task_statistics"
    /\ q \in {"todo", "in_progress", "completed", "archived"}
    /\ pending' = (pending \ {p}) \cup
                    {[p EXCEPT !.query = @ + 1,
                               !.counts = @ @@ (q :> count_user_tasks(
                                                        p.user, StatisticsStatus(q)))]}
    /\ UNCHANGED last
    /\ StatisticsFrame

(* The overdue query, and the response *)
GetTaskStatisticsOverdue(p) ==
    /\ p.op = "get_task_statistics"
    /\ StatisticsQueries[p.query] = "overdue"
    /\ \E overdue_tasks \in task_get_overdue_tasks(p.user, 0, 1) :
          last' = Ok("get_task_statistics", p.user, NoId, NoRequest, 200,
                     StatisticsBody(p.counts["total"], p.counts["todo"],
                                    p.counts["in_progress"], p.counts["completed"],
                                    p.counts["archived"], Len(overdue_tasks)))
    /\ pending' = pending \ {p}
    /\ StatisticsFrame

(* The statistics specification: an owner asks for statistics while requests
   of the same owner create, complete and delete tasks *)

StatisticsCreates ==
    [title : {<<"t">>}, description : {NullText}, status : {TODO, COMPLETED},
     priority : {MEDIUM}, due_date : {NoDue, 5}, category_id : {NoId}]

InitStatistics ==
    /\ users = {Alice, Bob}
    /\ categories = {}
    /\ tasks = {}
    /\ nextUserId = 3
    /\ nextCategoryId = 1
    /\ nextTaskId = 1
    /\ pending = {}
    /\ InitElsewhere
    /\ now = 7
    /\ tokens = {}
    /\ last = NoRequest

NextStatistics ==
    \/ \E u \in CurrentActiveUsers : pending = {} /\ GetTaskStatisticsTotal(u)
    \/ \E p \in pending : GetTaskStatisticsCount(p)
    \/ \E p \in pending : GetTaskStatisticsOverdue(p)
    \/ \E u \in CurrentActiveUsers, t \in StatisticsCreates :
          nextTaskId <= MaxStatisticsTaskId /\ CreateTask(u, t)
    \/ \E u \in CurrentActiveUsers, id \in 1..MaxStatisticsTaskId :
          UpdateTask(u, id, "status" :> COMPLETED)
    \/ \E u \in CurrentActiveUsers, id \in 1..MaxStatisticsTaskId : DeleteTask(u, id)

SpecStatistics == InitStatistics /\ [][NextStatistics]_vars

-----------------------------------------------------------------------------
(* C1: get, update and delete of a task or a category with an id that exists
   but belongs to another identity answer 404 with the status, message and body
   the same handler gives for an id that was never allocated, and leave the
   store as it was. *)

TaskOps == {"get_task", "update_task", "delete_task"}
CategoryOps == {"get_category", "update_category", "delete_category"}

UserById(user_id) == CHOOSE u \in users : u.id = user_id

(* The id names a row of the op's table owned by someone else than user_id *)
IsForeign(op, user_id, id) ==
    \/ op \in TaskOps /\ \E t \in tasks : t.id = id /\ t.user_id # user_id
    \/ op \in CategoryOps /\ \E c \in categories : c.id = id /\ c.user_id # user_id

(* What the handler answers to the same request naming an id never allocated *)
AbsentIdResponse(op, u, arg) ==
    CASE op = "get_task" -> get_task(u, nextTaskId).response
      [] op = "update_task" -> update_task(u, nextTaskId, arg).response
      [] op = "delete_task" -> delete_task(u, nextTaskId).response
      [] op = "get_category" -> get_category(u, nextCategoryId).response
      [] op = "update_category" -> update_category(u, nextCategoryId, arg).response
      [] op = "delete_category" -> delete_category(u, nextCategoryId).response

SameShape(r1, r2) ==
    r1.status = r2.status /\ r1.detail = r2.detail /\ r1.body = r2.body

ForeignIdStep ==
    (/\ last'.op \in TaskOps \cup CategoryOps
     /\ IsForeign(last'.op, last'.user, last'.id))
    => /\ last'.status = 404
       /\ SameShape(last', AbsentIdResponse(last'.op, UserById(last'.user), last'.arg))
       /\ UNCHANGED store

C1_ForeignIdIsNotFound == [][ForeignIdStep]_vars

(* Bob asked to delete a task of Alice's (or the reverse), then to update and
   to delete a category of the other's: each time 404, and the row is there *)
C1_Witness ==
    /\ last.op = "delete_category"
    /\ last.status = 404
    /\ \E c \in categories : c.id = last.id /\ c.user_id # last.user
    /\ \E t \in tasks : t.user_id # last.user /\ t.category_id = last.id

-----------------------------------------------------------------------------
(* C2: in every reachable state a task's category reference is empty or names
   an existing category of the task's owner. *)
C2_CategoryOfSameOwner ==
    \A t \in tasks :
        \/ t.category_id = NoId
        \/ \E c \in categories : c.id = t.category_id /\ c.user_id = t.user_id

(* A task was just moved into a category by update_task, while the other
   identity owns a task too *)
C2_Witness ==
    /\ last.op = "update_task"
    /\ last.status = 200
    /\ "category_id" \in DOMAIN last.arg
    /\ \E t \in tasks : t.id = last.id /\ t.category_id # NoId
    /\ \E t \in tasks : t.user_id # last.user

-----------------------------------------------------------------------------
(* C9: after delete_category succeeds the category is gone, every task that
   referenced it is still there with an empty category reference and its other
   fields as they were, and every other task is untouched. *)
DeleteCategoryStep ==
    (last'.op = "delete_category" /\ last'.status = 204)
    => /\ \A c \in categories' : c.id # last'.id
       /\ categories' = { c \in categories : c.id # last'.id }
       /\ \A t \in tasks :
             IF t.category_id = last'.id
             THEN [t EXCEPT !.category_id = NoId] \in tasks'
             ELSE t \in tasks'
       /\ { t.id : t \in tasks' } = { t.id : t \in tasks }
       /\ Cardinality(tasks') = Cardinality(tasks)

C9_DeleteCategoryClearsReference == [][DeleteCategoryStep]_vars

(* A category was deleted that one task referenced and another did not *)
C9_Witness ==
    /\ last.op = "delete_category"
    /\ last.status = 204
    /\ last.arg.referenced # {}
    /\ \A id \in last.arg.referenced :
          \E t \in tasks : t.id = id /\ t.category_id = NoId
    /\ \E t \in tasks : t.id \notin last.arg.referenced

-----------------------------------------------------------------------------
(* C4: among one owner's categories no two share a name, while different owners
   may use the same name; create_category and update_category answer 409
   AlreadyExists exactly when another category of the same owner, other than the
   one being updated, already has the requested name. *)

NameUniquePerOwner(cats) ==
    \A c1, c2 \in cats :
        (c1.user_id = c2.user_id /\ c1.name = c2.name) => c1.id = c2.id

(* Another category of the owner, other than exclude_id, has the name *)
NameHeldByOwner(user_id, name, exclude_id) ==
    \E c \in categories : /\ c.user_id = user_id
                          /\ c.name = name
                          /\ c.id # exclude_id

CategoryNameStep ==
    /\ NameUniquePerOwner(categories')
    /\ last'.op = "create_category" =>
          /\ last'.status = 409 <=> NameHeldByOwner(last'.user, last'.arg.name, NoId)
          /\ last'.status = 409 =>
                /\ last'.detail = "Category '" \o last'.arg.name \o "' already exists"
                /\ UNCHANGED store
          /\ (last'.status # 409 /\ last'.arg.name # Null) => last'.status = 201
    /\ last'.op = "update_category" =>
          /\ last'.status = 409 <=>
                /\ \E c \in categories : c.id = last'.id /\ c.user_id = last'.user
                /\ "name" \in DOMAIN last'.arg
                /\ NameHeldByOwner(last'.user, last'.arg.name, last'.id)
          /\ last'.status = 409 =>
                /\ last'.detail = "Category '" \o last'.arg.name \o "' already exists"
                /\ UNCHANGED store

C4_CategoryNameUniquePerOwner ==
    NameUniquePerOwner(categories) /\ [][CategoryNameStep]_vars

(* Both owners hold a category named alike, one of them holds a second category,
   and the rename of that second one to the shared name was just refused *)
C4_Witness ==
    /\ last.op = "update_category"
    /\ last.status = 409
    /\ \E c1, c2, c3 \in categories :
          /\ c1.user_id # c2.user_id
          /\ c1.name = c2.name
          /\ c3.id = last.id
          /\ c3.user_id = c1.user_id
          /\ c3.id # c1.id
          /\ last.arg.name = c1.name

-----------------------------------------------------------------------------
(* C5: a token is taken only when its declared type is the type the caller
   expects: for every two distinct types among access, refresh, reset and
   verification, decode_token and verify_token of a token of the one type
   asked for the other return nothing. *)
C5_TokenTypeMustMatch ==
    (/\ last.op \in {"decode_token", "verify_token"}
     /\ last.arg.expected_type \in TokenTypes
     /\ last.arg.token.type # last.arg.expected_type)
    => /\ last.op = "decode_token" => last.body = NoPayload
       /\ last.op = "verify_token" => last.body.sub = Null

(* A rightly signed refresh token, still within its life, was just refused as an
   access token, and would be taken as a refresh token *)
C5_Witness ==
    /\ last.op = "verify_token"
    /\ last.arg.token.type = REFRESH_TOKEN_TYPE
    /\ last.arg.expected_type = ACCESS_TOKEN_TYPE
    /\ last.arg.at = now
    /\ last.body.sub = Null
    /\ verify_token(last.arg.token, REFRESH_TOKEN_TYPE) = "1"

-----------------------------------------------------------------------------
(* C6: no token is taken at an instant later than its expiry, the instant it
   was created at plus the life of its type (access 15 minutes, refresh 7 days,
   reset 1 hour, verification 24 hours); an access token created at T is taken
   at T + 14 minutes and refused at T + 16 minutes. *)
C6_NeverAcceptedPastExpiry ==
    (/\ last.op = "decode_token"
     /\ last.arg.token.key = SECRET_KEY
     /\ last.arg.expected_type = last.arg.token.type)
    => /\ last.body # NoPayload =>
             last.arg.at <= last.arg.issued + TokenTTL(last.arg.token.type)
       /\ (/\ last.arg.token.type = ACCESS_TOKEN_TYPE
           /\ last.arg.at = last.arg.issued + Minutes(14))
          => last.body # NoPayload
       /\ (/\ last.arg.token.type = ACCESS_TOKEN_TYPE
           /\ last.arg.at = last.arg.issued + Minutes(16))
          => last.body = NoPayload

-----------------------------------------------------------------------------
(* C3: in every reachable state, however register, profile update and account
   deletion follow each other or interleave, no two identities have the same
   email and no two identities have the same username. *)
C3_EmailAndUsernameUnique ==
    \A u1, u2 \in users :
        (u1.email = u2.email \/ u1.username = u2.username) => u1.id = u2.id

(* Two requests passed their checks before either wrote, and the second write
   was refused by the table: a register whose email was taken meanwhile *)
C3_Witness ==
    /\ last.op = "register"
    /\ last.status = 500
    /\ \E u \in users : u.email = last.arg.email /\ u.username # last.arg.username

-----------------------------------------------------------------------------
(* C7: register with an email and a username no identity holds succeeds and
   creates an identity that is active and unverified; a login that follows, with
   that email or with that username and the same password, succeeds and returns
   an access token and a refresh token whose subject is the new identity's id. *)

LoginSucceedsFor(username, password, user_id) ==
    LET r == login(username, password)
    IN  /\ r.status = 200
        /\ r.body.access_token.type = ACCESS_TOKEN_TYPE
        /\ r.body.access_token.sub = ToString(user_id)
        /\ r.body.refresh_token.type = REFRESH_TOKEN_TYPE
        /\ r.body.refresh_token.sub = ToString(user_id)

(* Stated on the state register leaves: a register that failed left users as it
   was, so a collision then is a collision before *)
C7_RegisterThenLogin ==
    last.op = "register" =>
        /\ last.status # 201 =>
              \E u \in users : \/ u.email = last.arg.email
                               \/ u.username = last.arg.username
        /\ last.status = 201 =>
              \E u \in users :
                  /\ u.id = last.id
                  /\ u.email = last.arg.email
                  /\ u.username = last.arg.username
                  /\ u.is_active
                  /\ ~u.is_verified
                  /\ LoginSucceedsFor(last.arg.email, last.arg.password, u.id)
                  /\ LoginSucceedsFor(last.arg.username, last.arg.password, u.id)

-----------------------------------------------------------------------------
(* C8: register with an email an identity already holds, even with a username
   nobody holds, or with a username already held, fails with 409 AlreadyExists,
   creates no identity and leaves every identity as it was. *)
RegisterTakenStep ==
    (/\ last'.op = "register"
     /\ \E u \in users : \/ u.email = last'.arg.email
                         \/ u.username = last'.arg.username)
    => /\ last'.status = 409
       /\ last'.detail = IF \E u \in users : u.email = last'.arg.email
                         THEN "Email already registered"
                         ELSE "Username already taken"
       /\ users' = users
       /\ nextUserId' = nextUserId

C8_RegisterTakenFails == [][RegisterTakenStep]_vars

(* A register was just refused for its email while nobody holds its username *)
C8_Witness ==
    /\ last.op = "register"
    /\ last.status = 409
    /\ \E u \in users : u.email = last.arg.email
    /\ \A u \in users : u.username # last.arg.username

-----------------------------------------------------------------------------
(* C10: the filtered task query for an owner and any subset of the filters
   status, priority, category, search text, due-from and due-to returns as total
   the number of that owner's tasks that satisfy every filter supplied, whatever
   skip and limit are, and as items only tasks of that owner that satisfy every
   filter supplied; the search text is satisfied by a task whose title or
   description contains it, case ignored. *)

(* The title or the description contains the search text, case ignored *)
SearchMatchesLiterally(t, search) ==
    \E column \in {t.title, t.description} :
        /\ column # NullText
        /\ \E i \in 1..(Len(column) + 1) :
              /\ i + Len(search) - 1 <= Len(column)
              /\ \A j \in 1..Len(search) :
                    Lower(column[i + j - 1]) = Lower(search[j])

SatisfiesFilters(t, f) ==
    /\ f.status # Null => t.status = f.status
    /\ f.priority # Null => t.priority = f.priority
    /\ f.category_id # NoId => t.category_id = f.category_id
    /\ f.search # NullText => SearchMatchesLiterally(t, f.search)
    /\ f.due_date_from # NoDue => (t.due_date # NoDue /\ t.due_date >= f.due_date_from)
    /\ f.due_date_to # NoDue => (t.due_date # NoDue /\ t.due_date <= f.due_date_to)

C10_FilteredQueryTotalAndItems ==
    (last.op = "get_my_tasks" /\ last.status = 200) =>
        LET satisfying == { t \in tasks : /\ t.user_id = last.user
                                          /\ SatisfiesFilters(t, last.arg) }
        IN  /\ last.body.total = Cardinality(satisfying)
            /\ \A i \in 1..Len(last.body.items) :
                  last.body.items[i].task \in satisfying


-----------------------------------------------------------------------------
(* C11: a task listing with skip >= 0 and 1 <= limit <= 100 over an owner with
   N matching tasks returns min(limit, max(0, N - skip)) items, total = N,
   total_pages = the least number of pages of limit rows that hold N rows
   (0 when N = 0) and page = the number of the page of limit rows that row
   skip + 1 falls on; 15 tasks with skip = 0 and limit = 10 give 10 items,
   total 15, page 1 and 2 pages *)

Max(a, b) == IF a >= b THEN a ELSE b

MatchingCount(user_id, f) ==
    Cardinality({ t \in tasks : FilterWhere(t, user_id, f) })

Ceiling(n, d) == CHOOSE k \in 0..n : k * d >= n /\ \A j \in 0..n : j * d >= n => k <= j

PageNumber(skip, limit) ==
    CHOOSE p \in 1..(skip + 1) : (p - 1) * limit <= skip /\ skip < p * limit

C11_PaginationArithmetic ==
    (last.op = "get_my_tasks" /\ last.status = 200) =>
        LET f == last.arg
            N == MatchingCount(last.user, f)
        IN  /\ f.skip >= 0 /\ f.limit >= 1 /\ f.limit <= 100
            /\ Len(last.body.items) = Min(f.limit, Max(0, N - f.skip))
            /\ last.body.total = N
            /\ last.body.total_pages = Ceiling(N, f.limit)
            /\ last.body.page = PageNumber(f.skip, f.limit)
            /\ (N = 15 /\ f.skip = 0 /\ f.limit = 10) =>
                  /\ Len(last.body.items) = 10
                  /\ last.body.total = 15
                  /\ last.body.page = 1
                  /\ last.body.total_pages = 2

C11_Witness ==
    /\ last.op = "get_my_tasks" /\ last.status = 200
    /\ last.arg.skip = 0 /\ last.arg.limit = 10
    /\ MatchingCount(last.user, last.arg) = 15
    /\ Len(last.body.items) = 10
    /\ last.body.total_pages = 2

-----------------------------------------------------------------------------
(* C12: a task reports is_overdue = true exactly when it has a due timestamp
   earlier than the current time and its status is not COMPLETED, and the
   overdue listing returns exactly the owner's tasks that report
   is_overdue = true, ordered by ascending due timestamp *)

Overdue(t) == t.due_date # NoDue /\ t.due_date < now /\ t.status # COMPLETED

OverdueOf(user_id) == { t \in tasks : t.user_id = user_id /\ Overdue(t) }

ItemTasks(items) == { items[i].task : i \in 1..Len(items) }

ReportsOverdueExactly(items) ==
    \A i \in 1..Len(items) : items[i].is_overdue = Overdue(items[i].task)

AscendingByDue(items) ==
    \A i, j \in 1..Len(items) :
        i < j => items[i].task.due_date <= items[j].task.due_date

ListingResponse ==
    last.op \in {"get_overdue_tasks", "get_my_tasks"} /\ last.status = 200

-----------------------------------------------------------------------------
(* C16: requestPasswordReset(email) returns a reset token whose subject is the
   given email, with the same outcome shape and no change to the store whether
   or not an identity owns the email; a later resetPassword with a token whose
   email has no owner fails with NotFound and changes nothing.  A token counts
   as live while the clock's second is not past its exp and its signature is
   the server's. *)

LiveToken(token, type) ==
    /\ token.key = SECRET_KEY
    /\ token.type = type
    /\ token.exp >= now \div TicksPerSecond

Owners(email) == { u \in users : u.email = email }

(* The response but for the email it was asked for *)
ResetRequestShape(r) ==
    [status |-> r.status, detail |-> r.detail, fields |-> DOMAIN r.body,
     message |-> r.body.message,
     token |-> [r.body.reset_token EXCEPT !.sub = ""]]

RequestPasswordResetStep ==
    (last'.op = "request_password_reset" /\ now' = now)
    => /\ last'.status = 200
       /\ last'.body.reset_token.sub = last'.arg.email
       /\ LiveToken(last'.body.reset_token, RESET_TOKEN_TYPE)
       /\ \A e \in RecoverEmails :
             ResetRequestShape(request_password_reset(e)) = ResetRequestShape(last')
       /\ UNCHANGED <<store, nextUserId, nextCategoryId, nextTaskId>>

ResetPasswordNoOwnerStep ==
    (/\ last'.op = "reset_password" /\ now' = now
     /\ LiveToken(last'.arg.token, RESET_TOKEN_TYPE)
     /\ Owners(last'.arg.token.sub) = {})
    => /\ auth_service_reset_password(last'.arg).error = NotFoundError("User not found")
       /\ last'.status # 200
       /\ last'.detail = "User not found"
       /\ UNCHANGED <<store, nextUserId, nextCategoryId, nextTaskId>>

C16_ResetRequestDoesNotTellOwners ==
    [][RequestPasswordResetStep /\ ResetPasswordNoOwnerStep]_vars

(* A reset token asked for an email nobody holds was given, and the reset with
   it was refused as not found, while another email has an owner *)
C16_Witness ==
    /\ last.op = "reset_password"
    /\ last.detail = "User not found"
    /\ \E t \in tokens : /\ t.token = last.arg.token
                         /\ LiveToken(t.token, RESET_TOKEN_TYPE)
                         /\ Owners(t.token.sub) = {}
    /\ \E e \in RecoverEmails : Owners(e) # {}

-----------------------------------------------------------------------------
(* C17: a successful resetPassword(token, newPassword) overwrites the password
   hash of exactly the identity whose email is the token's subject: afterwards
   login with newPassword succeeds and login with the previous password fails
   (when the two differ), and no other field of that identity and no other
   identity changes; with a token that is forged, expired (the clock's second
   is past its exp) or not of kind reset it fails with InvalidToken and changes
   nothing *)

SameButFor(u, v, field) ==
    /\ DOMAIN u = DOMAIN v
    /\ \A k \in DOMAIN u \ {field} : u[k] = v[k]

PasswordOf(u) == CHOOSE p \in Passwords : verify_password(p, u.hashed_password)

LoginRefused(username, password) == login(username, password).status = 401

ResetPasswordStep ==
    (last'.op = "reset_password" /\ now' = now)
    => LET token == last'.arg.token
           new_password == last'.arg.new_password
       IN  /\ last'.status = 200 =>
                /\ LiveToken(token, RESET_TOKEN_TYPE)
                /\ \E u \in users, v \in users' :
                      /\ u.email = token.sub
                      /\ v.id = u.id
                      /\ SameButFor(u, v, "hashed_password")
                      /\ users' \ {v} = users \ {u}
                /\ \E u \in users, new \in Passwords, old \in Passwords :
                      /\ u.email = token.sub
                      /\ new = new_password
                      /\ old = PasswordOf(u)
                      /\ LoginSucceedsFor(u.email, new, u.id)'
                      /\ LoginSucceedsFor(u.username, new, u.id)'
                      /\ old # new =>
                            /\ LoginRefused(u.email, old)'
                            /\ LoginRefused(u.username, old)'
                /\ UNCHANGED <<categories, tasks, nextUserId, nextCategoryId,
                               nextTaskId>>
           /\ ~LiveToken(token, RESET_TOKEN_TYPE) =>
                /\ auth_service_reset_password(last'.arg).error =
                      InvalidTokenError("Invalid or expired reset token")
                /\ last'.status # 200
                /\ last'.detail = "Invalid or expired reset token"
                /\ UNCHANGED <<store, nextUserId, nextCategoryId, nextTaskId>>

C17_ResetPasswordOverwritesOneHash == [][ResetPasswordStep]_vars

(* A password was just reset to one that differs from the one the reset token's
   request was made under, while another identity is registered *)
C17_Witness ==
    /\ last.op = "reset_password"
    /\ last.status = 200
    /\ \E u \in users : /\ u.email = last.arg.token.sub
                        /\ u.hashed_password # Alice.hashed_password
                        /\ u.id = Alice.id
    /\ Cardinality(users) >= 2

-----------------------------------------------------------------------------
(* C18: verifyEmail with an unexpired verification token sets is_verified =
   true on the identity whose email equals the token's subject and changes
   nothing else, and repeating it leaves the state the same; it fails with
   InvalidToken for a forged, expired (the clock's second is past its exp) or
   wrong-kind token and with NotFound when no identity owns the email, and in
   both failures no identity changes.  An identity's is_verified goes from
   false to true by no other operation. *)

VerifyEmailStep ==
    (last'.op = "verify_email" /\ now' = now)
    => LET token == last'.arg.token
           error == auth_service_verify_email(token).error
       IN  /\ (LiveToken(token, VERIFICATION_TOKEN_TYPE) /\ Owners(token.sub) # {}) =>
                /\ last'.status = 200
                /\ \E u \in users, v \in users' :
                      /\ u.email = token.sub
                      /\ v.id = u.id
                      /\ v.is_verified
                      /\ SameButFor(u, v, "is_verified")
                      /\ users' \ {v} = users \ {u}
                /\ \E again \in PresentedTokens :
                      /\ again = token
                      /\ (auth_service_verify_email(again).users = users)'
           /\ ~LiveToken(token, VERIFICATION_TOKEN_TYPE) =>
                /\ error = InvalidTokenError("Invalid or expired verification token")
                /\ last'.status # 200
                /\ last'.detail = "Invalid or expired verification token"
                /\ users' = users
           /\ (LiveToken(token, VERIFICATION_TOKEN_TYPE) /\ Owners(token.sub) = {}) =>
                /\ error = NotFoundError("User not found")
                /\ last'.status # 200
                /\ last'.detail = "User not found"
                /\ users' = users
           /\ UNCHANGED <<categories, tasks, nextUserId, nextCategoryId, nextTaskId>>

BecomesVerifiedStep ==
    (\E u \in users, v \in users' : v.id = u.id /\ ~u.is_verified /\ v.is_verified)
    => /\ last'.op = "verify_email"
       /\ last'.status = 200
       /\ now' = now

C18_VerifyEmailSetsOneFlag == [][VerifyEmailStep /\ BecomesVerifiedStep]_vars

(* An email was just verified a second time, with a token that is still
   unexpired, while another identity stays unverified *)
C18_Witness ==
    /\ last.op = "verify_email"
    /\ last.status = 200
    /\ LiveToken(last.arg.token, VERIFICATION_TOKEN_TYPE)
    /\ \E u \in users : u.email = last.arg.token.sub /\ u.is_verified
    /\ \E u \in users : ~u.is_verified
    /\ now > 0

-----------------------------------------------------------------------------
(* C14: authenticate(identifier, password) returns the identity whose email or
   username equals the identifier when the password matches and the identity is
   active, whether or not it is verified; it fails with AuthenticationError
   when no identity matches or the password does not match, and with
   InactiveUser when the matched identity is inactive; it never changes the
   store *)

Matching(identifier) ==
    { u \in users : u.email = identifier \/ u.username = identifier }

PasswordMatches(u, password) == u.hashed_password = <<"bcrypt", password>>

AuthenticateOutcome(identifier, password) ==
    LET r == authenticate(identifier, password)
        known == { u \in Matching(identifier) : PasswordMatches(u, password) }
    IN  /\ (\E u \in known : u.is_active) =>
              /\ r.error = NoError
              /\ r.user \in known
              /\ r.user.is_active
        /\ known = {} =>
              r.error = AuthenticationError("Incorrect username or password")
        /\ (known # {} /\ \A u \in known : ~u.is_active) =>
              r.error = InactiveUserError

LoginStep == last'.op = "login" => UNCHANGED <<store, nextUserId>>

C14_AuthenticateOutcomes ==
    /\ [](\A identifier \in Emails \cup Usernames, password \in Passwords :
            AuthenticateOutcome(identifier, password))
    /\ [][LoginStep]_vars

-----------------------------------------------------------------------------
(* C15: refreshAccessToken with an unexpired refresh token whose subject is an
   existing active identity returns a new access token for that same identity
   and no new refresh token, and the same refresh token stays usable for
   further refreshes until its own expiry; it fails with InvalidToken for a
   bad, expired (the clock's second is past its exp) or wrong-kind token, with
   NotFound when the subject identity no longer exists, and with InactiveUser
   when it is inactive *)

Holders(token) == { u \in users : ToString(u.id) = token.sub }

RefreshTokenStep ==
    (last'.op = "refresh_token" /\ now' = now)
    => LET token == last'.arg.refresh_token
           error == auth_service_refresh_token(token).error
           live == LiveToken(token, REFRESH_TOKEN_TYPE)
       IN  /\ (live /\ \E u \in Holders(token) : u.is_active) =>
                /\ last'.status = 200
                /\ DOMAIN last'.body = {"access_token", "token_type"}
                /\ last'.body.access_token.type = ACCESS_TOKEN_TYPE
                /\ last'.body.access_token.sub = token.sub
                /\ last'.body.access_token.key = SECRET_KEY
                /\ last'.body.access_token.exp =
                      (now + Minutes(ACCESS_TOKEN_EXPIRE_MINUTES)) \div TicksPerSecond
           /\ ~live =>
                /\ error = InvalidTokenError("Invalid refresh token")
                /\ last'.status # 200
                /\ last'.detail = "Invalid refresh token"
           /\ (live /\ Holders(token) = {}) =>
                /\ error = NotFoundError("User not found")
                /\ last'.status # 200
                /\ last'.detail = "User not found"
           /\ (live /\ \E u \in Holders(token) : ~u.is_active) =>
                /\ error = InactiveUserError
                /\ last'.status # 200
                /\ last'.detail = "User account is inactive"
           /\ UNCHANGED <<store, nextUserId, nextCategoryId, nextTaskId, tokens>>

(* Whatever was refreshed before, a live refresh token of an active identity
   is taken *)
RefreshTokenStaysUsable ==
    \A t \in tokens :
        (/\ LiveToken(t.token, REFRESH_TOKEN_TYPE)
         /\ \E u \in Holders(t.token) : u.is_active)
        => refresh_token(t.token).status = 200

C15_RefreshGivesAccessTokenOnly ==
    []RefreshTokenStaysUsable /\ [][RefreshTokenStep]_vars

(* A refresh token created at the start was just used after the life of an
   access token had passed, and is still live *)
C15_Witness ==
    /\ last.op = "refresh_token"
    /\ last.status = 200
    /\ now >= Minutes(ACCESS_TOKEN_EXPIRE_MINUTES) + Seconds(1)
    /\ \E t \in tokens : t.token = last.arg.refresh_token /\ t.issued <= 1
    /\ RefreshTokenStaysUsable

-----------------------------------------------------------------------------
(* C19: a protected operation runs on behalf of identity X only if the request
   carried an unexpired access token whose subject is X's id and X exists at
   that moment; a missing, invalid, expired (the clock's second is past its
   exp) or wrong-kind token, or a subject that resolves to no identity, gives
   401 and no change to the store; an inactive identity gets 403 from the
   active check and an unverified one gets 403 from the verified check, each
   applied after the base resolution *)

BaseGateOps == {"get_current_user"}
ActiveGateOps == {"get_current_user_info", "delete_my_account"}
VerifiedGateOps == {"get_current_verified_user"}
GateOps == BaseGateOps \cup ActiveGateOps \cup VerifiedGateOps

(* The identities the Authorization header stands for *)
Bearers(authorization) ==
    IF authorization = NoAuthorization
    THEN {}
    ELSE IF ~LiveToken(authorization, ACCESS_TOKEN_TYPE)
    THEN {}
    ELSE Holders(authorization)

GateStep ==
    (last'.op \in GateOps /\ now' = now)
    => LET bearers == Bearers(last'.arg.authorization)
           active == last'.op \in ActiveGateOps \cup VerifiedGateOps
           verified == last'.op \in VerifiedGateOps
       IN  /\ last'.status = 200 =>
                \E x \in bearers :
                    /\ last'.user = x.id
                    /\ active => x.is_active
                    /\ verified => x.is_verified
                    /\ last'.op = "delete_my_account" =>
                          users' = { u \in users : u.id # x.id }
           /\ bearers = {} =>
                /\ last'.status = 401
                /\ UNCHANGED store
           /\ (active /\ \E x \in bearers : ~x.is_active) =>
                /\ last'.status = 403
                /\ last'.detail = "Inactive user"
                /\ UNCHANGED store
           /\ (verified /\ \E x \in bearers : x.is_active /\ ~x.is_verified) =>
                /\ last'.status = 403
                /\ last'.detail # "Inactive user"
                /\ UNCHANGED store
           /\ (~active /\ bearers # {}) => last'.status = 200
           /\ (active /\ ~verified /\ \E x \in bearers : x.is_active) =>
                last'.status = 200
           /\ (verified /\ \E x \in bearers : x.is_active /\ x.is_verified) =>
                last'.status = 200

C19_GateLetsOnlyTheBearerThrough == [][GateStep]_vars

(* An account was deleted and the same access token, still live and rightly
   signed, was just refused with 401 for a second deletion, others remaining *)
C19_Witness ==
    /\ last.op = "delete_my_account"
    /\ last.status = 401
    /\ last.arg.authorization # NoAuthorization
    /\ LiveToken(last.arg.authorization, ACCESS_TOKEN_TYPE)
    /\ Holders(last.arg.authorization) = {}
    /\ users # {}

-----------------------------------------------------------------------------
(* C20: the optional variant of the access gate resolves to an empty identity,
   not an error, when the request supplies no token, and also when the
   supplied token is invalid, expired or of the wrong kind; with a valid access
   token it resolves to the token's identity *)

C20_OptionalGateNeverFails ==
    last.op = "get_current_user_optional" =>
        LET bearers == Bearers(last.arg.authorization)
        IN  /\ last.status = 200
            /\ bearers = {} => last.body = NoRow
            /\ bearers # {} => last.body \in bearers

-----------------------------------------------------------------------------
(* C13: on every endpoint a workflow error reaches the client with the status
   the mapping gives it: AlreadyExists as 409, AuthenticationError and
   InvalidToken as 401, NotFound as 404, InactiveUser and UnverifiedUser as
   403; this includes login, refresh, password-reset confirm and verify-email *)

AuthenticationErrorDetails == {"Incorrect username or password"}
InvalidTokenDetails ==
    {"Invalid refresh token", "Invalid or expired reset token",
     "Invalid or expired verification token"}
NotFoundDetails == {"User not found", "Task not found", "Category not found"}
InactiveUserDetails == {"User account is inactive"}
AlreadyExistsDetails == {"Email already registered", "Username already taken"}

C13_ErrorsKeepTheirStatus ==
    /\ last.detail \in AuthenticationErrorDetails \cup InvalidTokenDetails =>
          last.status = 401
    /\ last.detail \in NotFoundDetails => last.status = 404
    /\ last.detail \in InactiveUserDetails => last.status = 403
    /\ last.detail \in AlreadyExistsDetails => last.status = 409
-----------------------------------------------------------------------------
(* C21: the statistics of an owner report, as total, the number of the owner's
   tasks, one count for each of the four statuses, and, as overdue, the number
   of the owner's tasks that are not COMPLETED and whose due instant is in the
   past *)

StatusCount(user_id, status) ==
    Cardinality({ t \in tasks : t.user_id = user_id /\ t.status = status })

C21_StatisticsCountTheOwnersTasks ==
    last.op = "get_task_statistics" =>
        /\ last.body.total =
               Cardinality({ t \in tasks : t.user_id = last.user })
        /\ last.body.by_status.todo = StatusCount(last.user, TODO)
        /\ last.body.by_status.in_progress = StatusCount(last.user, IN_PROGRESS)
        /\ last.body.by_status.completed = StatusCount(last.user, COMPLETED)
        /\ last.body.by_status.archived = StatusCount(last.user, ARCHIVED)
        /\ last.body.overdue = Cardinality(OverdueOf(last.user))

(* What does hold: the four counts and the total are exact, and overdue tells
   only whether the owner has an overdue task *)
C21_StatisticsOverdueIsAtMostOne ==
    last.op = "get_task_statistics" =>
        /\ last.body.total =
               Cardinality({ t \in tasks : t.user_id = last.user })
        /\ last.body.by_status.todo = StatusCount(last.user, TODO)
        /\ last.body.by_status.in_progress = StatusCount(last.user, IN_PROGRESS)
        /\ last.body.by_status.completed = StatusCount(last.user, COMPLETED)
        /\ last.body.by_status.archived = StatusCount(last.user, ARCHIVED)
        /\ last.body.overdue = Min(1, Cardinality(OverdueOf(last.user)))

-----------------------------------------------------------------------------
(* C22: when two registrations that cannot both be stored have both passed
   their existence check, the write of each ends either in success or in
   AlreadyExists (409): the one that loses is told that the email or username
   is taken *)

RegisterWriteStep ==
    /\ pending' # pending
    /\ pending' \subseteq pending
    /\ last'.op = "register"

C22_LosingRegisterIsAlreadyExists ==
    [][RegisterWriteStep => last'.status \in {201, 409}]_vars

(* What does hold: the unique indexes let one of the two in and the store keeps
   one identity per email and per username; the one that loses leaves as a 500 *)
C22_LosingRegisterIsDatabaseError ==
    [][RegisterWriteStep =>
          /\ UserConstraints(users')
          /\ \/ last'.status = 201 /\ Cardinality(users') = Cardinality(users) + 1
             \/ /\ last'.status = 500
                /\ last'.detail = "Database error occurred"
                /\ users' = users]_vars

-----------------------------------------------------------------------------
(* C23: however record_request, get_stats and reset interleave, whenever no
   call is inside the aggregator each endpoint holds the most recently
   recorded durations, at most MaxKeptDurations of them (1000 in the code), in
   the order they were recorded; so none is lost while fewer are held, and
   get_stats never reports more requests than that *)

LastN(s, n) ==
    LET k == IF Len(s) < n THEN Len(s) ELSE n
    IN  [i \in 1..k |-> s[Len(s) - k + i]]

C23_KeepsTheMostRecentDurations ==
    /\ ~lock_locked(performance_monitor) =>
           \A e \in Endpoints :
               performance_monitor.metrics[e] = LastN(recorded[e], MaxKeptDurations)
    /\ (last.op = "get_stats" /\ last.arg.endpoint # Null) =>
           last.body.requests <= MaxKeptDurations

(* An endpoint lost its oldest duration to a newer one, another one still holds
   all of its own, and the statistics of the first were read *)
C23_Witness ==
    /\ ~lock_locked(performance_monitor)
    /\ recorded["/health"] = <<1, 2, 2>>
    /\ performance_monitor.metrics["/health"] = <<2, 2>>
    /\ Len(recorded["/metrics"]) = 1
    /\ performance_monitor.metrics["/metrics"] = recorded["/metrics"]
    /\ last.op = "get_stats"
    /\ last.arg.endpoint = "/health"
    /\ last.body.requests = MaxKeptDurations

-----------------------------------------------------------------------------
(* C24: when an account is deleted, the identity and every task and category
   it owned are gone, the tasks and categories of the other identities are as
   they were, and a registration with the deleted email and username succeeds *)

OwnedBy(rows, user_id) == { r \in rows : r.user_id = user_id }

RegistersAgain(email, username) ==
    register([email |-> email, username |-> username, password |-> "pw2",
              full_name |-> Null]).response.status = 201

DeleteMyAccountStep ==
    (last'.op = "delete_my_account" /\ users' # users) =>
        \E u \in users :
            /\ u.id = last'.user
            /\ users' = users \ {u}
            /\ \A v \in users' : v.id # u.id
            /\ OwnedBy(tasks', u.id) = {}
            /\ OwnedBy(categories', u.id) = {}
            /\ tasks' = tasks \ OwnedBy(tasks, u.id)
            /\ categories' = categories \ OwnedBy(categories, u.id)
            /\ \E e \in {Alice.email, Bob.email}, n \in {Alice.username, Bob.username} :
                  e = u.email /\ n = u.username /\ RegistersAgain(e, n)'

C24_DeletedAccountLeavesNothingBehind == [][DeleteMyAccountStep]_vars

(* An account that owned a category and a task was deleted, the other
   identity's task is still there, and the email was registered again *)
C24_Witness ==
    /\ last.op = "register"
    /\ last.status = 201
    /\ last.arg.email = Alice.email
    /\ last.id = 3
    /\ \A u \in users : u.id # Alice.id
    /\ tasks # {}
    /\ nextTaskId = 3
    /\ nextCategoryId >= 2

-----------------------------------------------------------------------------
(* C25: a request holds exactly one session from its first dependency on; the
   session is closed in the end whether the request leaves with success, with
   a handled error or with an unhandled fault; what it wrote is committed when
   it succeeds, and what was not committed by then is discarded when it leaves
   with an exception *)

InFlight(r) == \E p \in pending : p.slot = r

Open(r) == \E s \in SessionsOf(r) : s.state = "open"

Closed(r) == SessionsOf(r) # {} /\ \A s \in SessionsOf(r) : s.state = "closed"

OneSessionEach ==
    /\ \A r \in RequestIds : Cardinality(SessionsOf(r)) <= 1
    /\ \A p \in pending :
          p.pc # "depends" => Cardinality(SessionsOf(p.slot)) = 1
    /\ \A r \in RequestIds : Open(r) => InFlight(r)

(* The response of request r leaves: every row it still held uncommitted is
   in the store when it succeeded and is not when it raised *)
ResponseStep ==
    \A p \in pending :
        (p \notin pending' /\ last'.id = p.slot) =>
            /\ p.pc = "close"
            /\ Closed(p.slot)'
            /\ SessionOf(p).new = {}
            /\ last'.status = 200 <=> p.raised = NoException

CommitStep ==
    \A p \in pending :
        (p.pc = "commit" /\ [p EXCEPT !.pc = "close"] \in pending') =>
            /\ tasks' = tasks \cup SessionOf(p).new
            /\ SessionOf(p)'.new = {}

RollbackStep ==
    \A p \in pending :
        (p.pc = "rollback" /\ p \notin pending') =>
            /\ tasks' = tasks
            /\ SessionOf(p)'.new = {}
            /\ SessionOf(p).new \cap tasks' = {}

C25_OneSessionClosedOnEveryPath ==
    /\ []OneSessionEach
    /\ [][ResponseStep /\ CommitStep /\ RollbackStep]_vars
    /\ \A r \in RequestIds : Open(r) ~> Closed(r)

(* Every request has left and its session is closed; of the two rows written
   one was committed and one discarded, and the last request left with a
   fault *)
C25_Witness ==
    /\ pending = {}
    /\ \A r \in RequestIds : Closed(r)
    /\ Cardinality(tasks) = 1
    /\ nextTaskId = 3
    /\ last.status = 500

-----------------------------------------------------------------------------
(* C26: in every reachable state every login identifier matches at most one
   identity under the email-or-username lookup, no username being the email
   of another identity, so that a login never ends in an unhandled fault *)

C26_IdentifierMatchesAtMostOne ==
    /\ \A identifier \in Emails \cup Usernames :
          Cardinality(get_by_email_or_username(identifier)) <= 1
    /\ \A u, v \in users : u.id # v.id => u.username # v.email
    /\ last.op = "login" => last.status # 500

-----------------------------------------------------------------------------
(* C27: a reset or verification token acts only on the identity that held the
   token's email when the token was handed out: once that identity has changed
   its email or is deleted and another identity holds the email, the token
   changes neither the password nor the verification flag of that other
   identity *)

Changed == { v \in users' : v \notin users }

TokenActsOnItsOwnerStep ==
    (last'.op \in {"reset_password", "verify_email"} /\ now' = now) =>
        \A t \in tokens :
            (t.token = last'.arg.token /\ t.to # {}) =>
                \A v \in Changed : v.id \in t.to

C27_TokenActsOnlyOnItsOwner == [][TokenActsOnItsOwnerStep]_vars

-----------------------------------------------------------------------------
(* C28: a request that is answered with an error (AlreadyExists, NotFound,
   AuthenticationError, InvalidToken, InactiveUser, or the 409 and 400 of the
   profile and password updates) leaves the identities, the categories and the
   tasks exactly as they were: every check runs before the first write *)

ErrorStatuses == {400, 401, 403, 404, 409}

RefusedStep == last'.status \in ErrorStatuses => UNCHANGED <<users, categories, tasks>>

C28_RefusedRequestsWriteNothing == [][RefusedStep]_vars

(* A password update was just refused while two identities, a category and a
   task are stored *)
C28_Witness ==
    /\ last.op = "update_my_password"
    /\ last.status = 400
    /\ Cardinality(users) = 2
    /\ categories # {}
    /\ tasks # {}

-----------------------------------------------------------------------------
(* C29: no request makes an identity inactive: every identity that register
   created is active in every reachable state, and neither login, nor the
   refresh of an access token, nor the active check of a protected route
   answers that the account is inactive *)

InactiveAnswers == InactiveUserDetails \cup {"Inactive user"}

C29_RegisteredIdentitiesStayActive ==
    /\ \A u \in users : u.is_active
    /\ last.detail \notin InactiveAnswers
    /\ last.status # 403

(* Two identities are registered, the password of one has been written again,
   and the active check of a protected route let one of them through *)
C29_Witness ==
    /\ Cardinality(users) = 2
    /\ \E u \in users : u.hashed_password = get_password_hash("pw2")
    /\ last.op = "get_current_user_info"
    /\ last.status = 200

-----------------------------------------------------------------------------
(* C30: the statistics a request reports agree with each other, also while
   other requests of the same owner create, update or delete tasks: total is
   the sum of the four counts by status, and overdue is at most total minus
   the count of COMPLETED *)

C30_StatisticsAreConsistent ==
    last.op = "get_task_statistics" =>
        /\ last.body.total =
               last.body.by_status.todo + last.body.by_status.in_progress
               + last.body.by_status.completed + last.body.by_status.archived
        /\ last.body.overdue <= last.body.total - last.body.by_status.completed

=============================================================================
